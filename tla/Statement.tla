----------------------------- MODULE Statement -----------------------------
(***************************************************************************)
(* POST /valuation-statement/generate: generate_filled_docx of             *)
(* app/valuation_statement/routes.py, populate of template.py, which fills *)
(* the bundled template paragraph by paragraph, and docx_to_pdf of         *)
(* pdf_export.py, which has LibreOffice convert the result in a directory  *)
(* of its own.                                                             *)
(*                                                                         *)
(* A text is the sequence of its words, with blanks and line breaks as     *)
(* words of their own; a placeholder is one word, and so is each digit of  *)
(* an amount. What the statement is to say is given in Reviewed,           *)
(* independently of the template.                                          *)
(***************************************************************************)
EXTENDS Naturals, FiniteSetsExt, SequencesExt

CONSTANTS
    Requests,    \* what the web client posts, and whether soffice is installed
    BadEscapes,  \* words with a backslash that re.sub rejects
    Expansions,  \* what re.sub makes of the words with a backslash that it takes
    Controls,    \* words that no docx can hold: python-docx raises ValueError
    None         \* no answer, no directory

VARIABLES
    request,  \* the request that is being served
    filled,   \* the paragraphs filled so far
    workdir,  \* the files in the conversion's directory, or None
    soffice,  \* "idle", "running", "exited", "failed" or "orphaned"
    answer    \* [status, document], or None

statementVars == <<request, filled, workdir, soffice, answer>>

\* What the conversion's directory holds, and what is answered.
Directory == {None, {}, {"part"}, {"whole"}}

Answers == [status : {200, 422, 500, 503},
            document : {"docx", "part", "whole", None}]

ASSUME NoAnswerAssumption ==
    /\ \A directory \in {{}, {"part"}, {"whole"}} : directory # None
    /\ \A a \in Answers : a # None

-----------------------------------------------------------------------------
\* The template (templates/vardeutlatande_mall.docx).

Hint == "Vid lag likviditet behover vi en forklaring."

Template ==
    << <<"Objekt", ":", " ", "[Kommun Fastighet 1:1]", " ",
         "[Lagenhetsnummer, BRF namn och orgnr]">>,
       <<"Adress", ":", " ", "[Gatuadress, postort]", " ", "[Enbart bostadsratt]">>,
       <<"Kommun", ":", " ", "[Kommun]", " ", "[Enbart bostadsratt]">>,
       <<"Upplatelseform", ":", " ", "[Frikopt / Tomtratt / Bostadsratt]">>,
       <<"underlag", " ", "som", " ", "datavardering", ",", " ", "fastighetsutdrag", ",",
         " ", " ", "och", " ", "lagenhetsforteckning", " ", "beaktats", ".", " ", " ",
         "[Fyll pa ifall bilder]", ".">>,
       <<"av", " ", "[objekt]", " ", "i", " ", "[Kommun]", " ", "som", " ",
         "[god/normal/lag]", ".", " ", Hint>>,
       <<"till", " ", "[belopp]", " ", "kr", ",", " ", "om", " ", "[belopp]", " ", "kr">>,
       <<"[Ort],[Datum]", "\n">>,
       <<"Utfardat", "\n", "[Maklarens namn]", " ", "\n", "[Titel/Funktion]", "\n",
         "[Foretagets namn]">> >>

White == {" ", "\n"}

-----------------------------------------------------------------------------
\* Placeholders.

Digit == {"0", "1", "2", "3", "4", "5", "6", "7", "8", "9"}

\* Amounts are grouped in thousands, however they were typed; what is no
\* amount is left as it is.
FormatSwedishNumber(value) ==
    LET digits == SelectSeq(value, LAMBDA w : w \in Digit) IN
    IF ToSet(value) \subseteq Digit \cup {" "} /\ digits # <<>>
    THEN FlattenSeq([i \in DOMAIN digits |->
            IF i > 1 /\ (Len(digits) - i + 1) % 3 = 0 THEN <<" ", digits[i]>>
            ELSE <<digits[i]>>])
    ELSE value

Unpadded(w) ==
    CASE w = "01" -> "1" [] w = "06" -> "6" [] OTHER -> w

\* Only an ISO date is turned around.
SwedishDisplayDate(value) ==
    IF Len(value) = 5 /\ value[2] = "-" /\ value[4] = "-"
    THEN <<Unpadded(value[5]), "/", Unpadded(value[3]), "/", value[1]>>
    ELSE value

\* The replacements, in order.
BuildReplacements(f) ==
    LET datum == SwedishDisplayDate(f.datum) IN
    (IF f.mode = "bostadsratt"
     THEN << <<"[Lagenhetsnummer, BRF namn och orgnr]", f.objekt>>,
             <<"[Kommun Fastighet 1:1]", <<>>>> >>
     ELSE << <<"[Kommun Fastighet 1:1]", f.objekt>>,
             <<"[Lagenhetsnummer, BRF namn och orgnr]", <<>>>> >>)
    \o << <<"[Gatuadress, postort]", f.adress>>,
          <<"[Frikopt / Tomtratt / Bostadsratt]", f.upplatelseform>>,
          <<"[Kommun]", f.kommun>>,
          <<"[objekt]", f.objekt_short>>,
          <<"[god/normal/lag]", f.likviditet>>,
          <<"[belopp]", <<"BELOPP">>>>,
          <<"[Ort],[Datum]",
            IF f.ort = <<>> THEN datum ELSE f.ort \o <<",", " ">> \o datum>>,
          <<"[Maklarens namn]", f.maklare_namn>>,
          <<"[Titel/Funktion]", f.maklare_titel>>,
          <<"[Foretagets namn]", f.foretag>> >>

Replace(text, needle, sub) ==
    FlattenSeq([i \in DOMAIN text |->
        IF text[i] = needle THEN sub ELSE <<text[i]>>])

ApplyReplacements(text, replacements) ==
    FoldLeft(LAMBDA t, r : Replace(t, r[1], r[2]), text, replacements)

ReplaceFirst(text, needle, sub) ==
    LET i == SelectInSeq(text, LAMBDA w : w = needle) IN
    IF i = 0 THEN text
    ELSE SubSeq(text, 1, i - 1) \o sub \o SubSeq(text, i + 1, Len(text))

\* Mutant: the first amount takes both places.
FinalizeAtOnce(text, f) ==
    Replace(text, "BELOPP", FormatSwedishNumber(f.marknadsvarde_kr))

\* The first place is the value's, the second the interval's.
FinalizeBelopp(text, f) ==
    ReplaceFirst(ReplaceFirst(text, "BELOPP", FormatSwedishNumber(f.marknadsvarde_kr)),
                 "BELOPP", FormatSwedishNumber(f.intervall_kr))

-----------------------------------------------------------------------------
\* Clauses, meta-comments and the note.

Sources(f) ==
    SelectSeq(<< <<"datavardering", f.datavardering_date>>,
                 <<"fastighetsutdrag", f.fastighetsutdrag_date>>,
                 <<"lagenhetsforteckning", f.lagenhetsforteckning_date>> >>,
              LAMBDA s : s[2] # <<>>)

Clause(s) == <<s[1], " ", "per", " ", "datum", " ">> \o s[2]

\* All but the last with commas, the last with "och".
Clauses(sources) ==
    LET n == Len(sources) IN
    FlattenSeq([k \in 1 .. n |->
        (CASE k = 1 -> <<>> [] k > 1 /\ k < n -> <<",", " ">> [] OTHER -> <<" ", "och", " ">>)
            \o Clause(sources[k])])

AssembleSourceClauses(text, f) ==
    LET som == SelectInSeq(text, LAMBDA w : w = "som")
        end == SelectInSeq(text, LAMBDA w : w = "beaktats")
    IN  IF end = 0 THEN text
        ELSE SubSeq(text, 1, som - 1)
                \o (IF Sources(f) = <<>> THEN <<>>
                    ELSE <<"som", " ">> \o Clauses(Sources(f)) \o <<" ">>)
                \o SubSeq(text, end, Len(text))

\* i is in the white space right after, or right before, the word w.
After(text, i, w) ==
    \E j \in 1 .. i - 1 : text[j] = w /\ \A k \in j + 1 .. i : text[k] \in White

Before(text, i, w) ==
    \E j \in i + 1 .. Len(text) : text[j] = w /\ \A k \in i .. j - 1 : text[k] \in White

\* The words of a text that are kept, each replaced by some words.
Rewritten(text, Kept(_), As(_)) ==
    FlattenSeq([i \in DOMAIN text |-> IF Kept(i) THEN As(i) ELSE <<>>])

StripMetacomments(text) ==
    LET bare == Replace(text, "[Enbart bostadsratt]", <<>>)
        squeezed == Rewritten(bare, LAMBDA i : i = 1 \/ bare[i] # " " \/ bare[i - 1] # " ",
                              LAMBDA i : <<bare[i]>>)
        lines == Rewritten(squeezed, LAMBDA i : squeezed[i] # " " \/ i = Len(squeezed)
                                                   \/ squeezed[i + 1] # "\n",
                           LAMBDA i : <<squeezed[i]>>)
        colons == Rewritten(lines, LAMBDA i : ~After(lines, i, ":") \/ lines[i - 1] = ":",
                            LAMBDA i : IF After(lines, i, ":") THEN <<" ">>
                                       ELSE <<lines[i]>>)
    IN  Rewritten(colons, LAMBDA i : ~After(colons, i, Hint) /\ ~Before(colons, i, Hint),
                  LAMBDA i : IF colons[i] = Hint THEN <<" ">> ELSE <<colons[i]>>)

\* The note is the replacement template of re.sub, which puts a line break for \n,
\* the marker itself for \g<0> and so on, and keeps a backslash before anything that
\* is neither a letter, a digit nor a backslash.
Expanded(note) ==
    FlattenSeq([i \in DOMAIN note |->
        IF note[i] \in DOMAIN Expansions THEN Expansions[note[i]] ELSE <<note[i]>>])

\* The marker goes with the white space before it and the full stop after it.
ApplyBilderNote(text, note) ==
    LET marker == "[Fyll pa ifall bilder]" IN
    Rewritten(text, LAMBDA i : /\ ~Before(text, i, marker)
                               /\ ~(i > 1 /\ text[i - 1] = marker /\ text[i] = "."),
              LAMBDA i : IF text[i] # marker THEN <<text[i]>>
                         ELSE IF note = <<>> THEN <<>> ELSE <<" ">> \o Expanded(note))

Populated(text, f) ==
    ApplyBilderNote(
        StripMetacomments(
            FinalizeBelopp(
                AssembleSourceClauses(ApplyReplacements(text, BuildReplacements(f)), f), f)),
        f.bilder_note)

-----------------------------------------------------------------------------
\* What the reviewed values say, paragraph by paragraph; of the date, how it is
\* to be shown is part of the request.

Grouped(digits) ==
    LET upTo[n \in 0 .. Len(digits)] ==
            IF n <= 3 THEN SubSeq(digits, 1, n)
            ELSE upTo[n - 3] \o <<" ">> \o SubSeq(digits, n - 2, n)
    IN  upTo[Len(digits)]

Amount(typed) ==
    IF Digit \cap ToSet(typed) # {} /\ ToSet(typed) \subseteq Digit \cup {" "}
    THEN Grouped(SelectSeq(typed, LAMBDA w : w # " ")) ELSE typed

Listed(f) ==
    LET said == Sources(f) IN
    CASE Len(said) = 0 -> <<>>
      [] Len(said) = 1 -> <<"som", " ">> \o Clause(said[1]) \o <<" ">>
      [] Len(said) = 2 -> <<"som", " ">> \o Clause(said[1]) \o <<" ", "och", " ">>
                              \o Clause(said[2]) \o <<" ">>
      [] Len(said) = 3 -> <<"som", " ">> \o Clause(said[1]) \o <<",", " ">>
                              \o Clause(said[2]) \o <<" ", "och", " ">>
                              \o Clause(said[3]) \o <<" ">>

Reviewed(f) ==
    << <<"Objekt", ":", " ">> \o f.objekt,
       <<"Adress", ":", " ">> \o f.adress,
       <<"Kommun", ":", " ">> \o f.kommun,
       <<"Upplatelseform", ":", " ">> \o f.upplatelseform,
       <<"underlag", " ">> \o Listed(f) \o <<"beaktats", ".">>
           \o (IF f.bilder_note = <<>> THEN <<>> ELSE <<" ">> \o f.bilder_note),
       <<"av", " ">> \o f.objekt_short \o <<" ", "i", " ">> \o f.kommun
           \o <<" ", "som", " ">> \o f.likviditet \o <<".">>,
       <<"till", " ">> \o Amount(f.marknadsvarde_kr) \o <<" ", "kr", ",", " ", "om", " ">>
           \o Amount(f.intervall_kr) \o <<" ", "kr">>,
       (IF f.ort = <<>> THEN <<>> ELSE f.ort \o <<",", " ">>) \o f.shown \o <<"\n">>,
       <<"Utfardat", "\n">> \o f.maklare_namn \o <<"\n">> \o f.maklare_titel \o <<"\n">>
           \o f.foretag >>

\* Blanks before another one or at the end of a line are not seen.
Visible(text) ==
    Rewritten(text \o <<"\n">>,
              LAMBDA i : i <= Len(text)
                            /\ ~(text[i] = " " /\ (text \o <<"\n">>)[i + 1] \in White),
              LAMBDA i : <<text[i]>>)

-----------------------------------------------------------------------------
\* The handler.

StatementInit ==
    /\ request \in Requests
    /\ filled = <<>>
    /\ workdir = None
    /\ soffice = "idle"
    /\ answer = None

Answer(status, document) == answer' = [status |-> status, document |-> document]

Signed(f) == ToSet(f.maklare_namn) \ White # {}

\* A statement without the appraiser's name is refused.
Refuse ==
    /\ answer = None /\ ~Signed(request)
    /\ Answer(422, None)
    /\ UNCHANGED <<request, filled, workdir, soffice>>

\* re.sub parses the note, whether or not the paragraph has its marker, and
\* _rewrite_paragraph fails on what no docx can hold.
FillParagraph ==
    LET text == Populated(Template[Len(filled) + 1], request) IN
    /\ answer = None /\ Signed(request) /\ Len(filled) < Len(Template)
    /\ IF \/ ToSet(request.bilder_note) \cap BadEscapes # {}
          \/ ToSet(text) \cap Controls # {}
       THEN Answer(500, None) /\ UNCHANGED filled
       ELSE filled' = Append(filled, text) /\ UNCHANGED answer
    /\ UNCHANGED <<request, workdir, soffice>>

Ready == answer = None /\ Len(filled) = Len(Template)

AnswerDocx ==
    /\ Ready /\ request.format = "docx"
    /\ Answer(200, "docx")
    /\ UNCHANGED <<request, filled, workdir, soffice>>

NoSoffice ==
    /\ Ready /\ request.format = "pdf" /\ ~request.installed
    /\ Answer(503, None)
    /\ UNCHANGED <<request, filled, workdir, soffice>>

StartSoffice ==
    /\ Ready /\ request.format = "pdf" /\ request.installed /\ soffice = "idle"
    /\ workdir' = {}
    /\ soffice' = "running"
    /\ UNCHANGED <<request, filled, answer>>

\* LibreOffice begins input.pdf, and ends it.
Write ==
    /\ soffice \in {"running", "orphaned"} /\ workdir # None
    /\ \/ workdir = {} /\ workdir' = {"part"}
       \/ workdir = {"part"} /\ workdir' = {"whole"}
    /\ UNCHANGED <<request, filled, soffice, answer>>

\* It exits 0 with the file or without it, or fails at any moment.
Exit ==
    /\ soffice = "running"
    /\ \E status \in {"exited", "failed"} :
          /\ status = "exited" => workdir # {"part"}
          /\ soffice' = status
    /\ UNCHANGED <<request, filled, workdir, answer>>

\* Only the launcher is killed: what it has started runs on.
TimeOut ==
    /\ soffice = "running"
    /\ soffice' = "orphaned"
    /\ UNCHANGED <<request, filled, workdir, answer>>

\* Mutant: the return code is not looked at.
CloseUnchecked ==
    /\ Ready /\ soffice \in {"exited", "failed", "orphaned"}
    /\ IF soffice # "orphaned" /\ workdir # {}
       THEN \E file \in workdir : Answer(200, file) ELSE Answer(500, None)
    /\ \/ workdir' = None
       \/ soffice = "orphaned" /\ workdir' = workdir
    /\ UNCHANGED <<request, filled, soffice>>

\* The file is read, or the failure raised, and the directory removed; an
\* orphan that still writes to it can make its removal fail.
Close ==
    /\ Ready /\ soffice \in {"exited", "failed", "orphaned"}
    /\ IF soffice = "exited" /\ workdir # {}
       THEN \E file \in workdir : Answer(200, file) ELSE Answer(500, None)
    /\ \/ workdir' = None
       \/ soffice = "orphaned" /\ workdir' = workdir
    /\ UNCHANGED <<request, filled, soffice>>

StatementNext ==
    \/ Refuse \/ FillParagraph \/ AnswerDocx \/ NoSoffice
    \/ StartSoffice \/ Write \/ Exit \/ TimeOut \/ Close

StatementSpec == StatementInit /\ [][StatementNext]_statementVars

-----------------------------------------------------------------------------

\* A statement that is answered reads as it was reviewed: every value in its
\* place, whichever kind of tenure, sources and amounts were given, and nothing
\* of the template's hints left (populate).  Only the note is not always what was
\* typed: where it holds an escape that re.sub takes, it reads as its expansion.
ReadsAsReviewed ==
    LET read == [request EXCEPT !.bilder_note = Expanded(@)] IN
    answer # None /\ answer.status = 200 =>
        /\ Len(filled) = Len(Reviewed(read))
        /\ \A p \in DOMAIN filled : Visible(filled[p]) = Visible(Reviewed(read)[p])

\* What is answered is signed and whole, and a conversion leaves no directory
\* behind unless it timed out (generate_filled_docx, docx_to_pdf).
AnswerIsWhole ==
    answer # None =>
        /\ answer.status = 200 => /\ ToSet(request.maklare_namn) \ White # {}
                                  /\ answer.document # "part"
        /\ workdir # None => soffice = "orphaned"
=============================================================================
