------------------------------ MODULE LghCells ------------------------------
(***************************************************************************)
(* The cells of a lagenhetsforteckning (_lgh_label_to_value and            *)
(* _lgh_line_after of app/valuation_statement/field_extractor.py). Its     *)
(* text has a label on a line, then its value; lines come out up to four   *)
(* times.                                                                  *)
(*                                                                         *)
(* A lagenhetsforteckning is the sequence of the lines that are printed    *)
(* [line, value, copies]: what the line says, whether it belongs to the    *)
(* value of the label above it, and how often it comes out.                *)
(***************************************************************************)
EXTENDS Naturals, FiniteSetsExt, SequencesExt

CONSTANTS
    Registers,  \* the documents that are looked at
    RegisterLines,  \* what their lines say
    NoLine      \* no line follows

VARIABLES
    register,  \* the lagenhetsforteckning that was uploaded
    linesRead, \* how many lines have been read
    lghCell    \* the values found so far, by key

lghVars == <<register, linesRead, lghCell>>

-----------------------------------------------------------------------------

\* The stems of the labels, and their keys; a lost ligature makes another stem.
LghStems ==
    [lghnr |-> "lghnr", skateverketslghnr |-> "skatteverketslghnr",
     skatteverketslghnr |-> "skatteverketslghnr", adress |-> "adress",
     forening |-> "forening", organisationsnummer |-> "organisationsnummer"]

Known == DOMAIN LghStems

\* No line says what the one above it says, and a value is no label; of a value
\* of two lines, the first is not printed before.
ASSUME RegistersAssumption ==
    \A r \in Registers :
        /\ r \in Seq([line : RegisterLines, value : BOOLEAN, copies : Nat \ {0}])
        /\ \A k \in DOMAIN r : r[k].value => r[k].line \notin Known
        /\ \A k \in 2 .. Len(r) : r[k].line # r[k - 1].line
        /\ \A k \in 2 .. Len(r) :
              r[k].value /\ r[k - 1].value =>
                  \A j \in 1 .. k - 2 : r[j].line # r[k - 1].line

Rendering(r) ==
    FlattenSeq([k \in DOMAIN r |-> [copy \in 1 .. r[k].copies |-> r[k].line]])

\* Mutant: the copies of a line are kept.
KeepLines(text) == text

DedupLines(text) ==
    FlattenSeq([i \in DOMAIN text |->
        IF i > 1 /\ text[i] = text[i - 1] THEN <<>> ELSE <<text[i]>>])

LghLines(r) == DedupLines(Rendering(r))

LghInit == register \in Registers /\ linesRead = 0 /\ lghCell = <<>>

\* The first label of a key takes the next line that is no label.
ReadLabel ==
    LET lines == LghLines(register)
        stem == lines[linesRead + 1]
        values == {j \in linesRead + 2 .. Len(lines) : lines[j] \notin Known}
    IN  /\ linesRead < Len(lines)
        /\ linesRead' = linesRead + 1
        /\ lghCell' =
              IF /\ stem \in Known /\ values # {}
                 /\ LghStems[stem] \notin DOMAIN lghCell
              THEN [key \in DOMAIN lghCell \cup {LghStems[stem]} |->
                       IF key \in DOMAIN lghCell THEN lghCell[key] ELSE lines[Min(values)]]
              ELSE lghCell
        /\ UNCHANGED register

\* The line after the first one that reads as the target: the postort.
LineAfter(lines, target) ==
    LET i == SelectInSeq(lines, LAMBDA l : l = target) IN
    IF i = 0 \/ i = Len(lines) THEN NoLine ELSE lines[i + 1]

LghSpec == LghInit /\ [][ReadLabel]_lghVars

-----------------------------------------------------------------------------

\* The k-th line is a label with a value, and the first of its key.
FirstWithValue(k) ==
    /\ register[k].line \in Known
    /\ k < Len(register) /\ register[k + 1].value
    /\ \A j \in 1 .. k - 1 : register[j].line \in Known =>
                               LghStems[register[j].line] # LghStems[register[k].line]

\* Every label with a value printed below it has that value, the first line of
\* it, however often the lines come out and whatever a blank label before it
\* took; and the postort is the line below the address (_lgh_label_to_value,
\* _kommun_lgh).  A blank label takes the value of a later one.
CellsArePrinted ==
    linesRead = Len(LghLines(register)) =>
        \A k \in DOMAIN register :
            LET key == LghStems[register[k].line]
                value == register[k + 1].line
            IN  FirstWithValue(k) =>
                   /\ key \in DOMAIN lghCell /\ lghCell[key] = value
                   /\ k + 2 <= Len(register) /\ register[k + 2].value =>
                         LineAfter(LghLines(register), value) = register[k + 2].line
=============================================================================
