--------------------------- MODULE CommandParser ---------------------------
(***************************************************************************)
(* The parser of voice transcriptions (app/parser.py). A text is the       *)
(* sequence of its words once preprocess_lightweight has removed case,     *)
(* punctuation and extra spaces. parse_transcription takes the segments of *)
(* a text one by one; a segment's words and phrases are sequences, too,    *)
(* and <<>> stands for a field that is None.                               *)
(*                                                                         *)
(* The commands a caller means, and how they say them, are given in        *)
(* Meaning and Rendered, independently of the parser.                      *)
(***************************************************************************)
EXTENDS Naturals, FiniteSetsExt, SequencesExt

CONSTANTS
    Vocabulary,  \* the words callers use
    Number,      \* words of digits only
    Filler,      \* FILLER_WORDS, each as a phrase
    Dates,       \* phrases dateparser understands
    Speeches     \* what callers say: sequences of utterances

VARIABLES
    speech,   \* the commands the caller means
    todo,     \* the segments that are still to be parsed
    result    \* the ParseResult so far

vars == <<speech, todo, result>>

Operations == {"create", "read", "update", "delete"}

TableDimensions ==
    [task |-> {"title", "content", "date", "priority", "label", "status"},
     note |-> {"title", "content", "tag", "date"}]

Tables == DOMAIN TableDimensions

Priorities == {"low", "medium", "high", "critical"}

Empty == [tasks |-> <<>>, notes |-> <<>>, commands |-> <<>>, errors |-> <<>>]

-----------------------------------------------------------------------------
\* Words and phrases.

\* t from position i on.
From(t, i) == SubSeq(t, i, Len(t))

\* The positions in P, in order.
Positions(P) ==
    [k \in 1 .. Cardinality(P) |->
        CHOOSE i \in P : Cardinality({j \in P : j < i}) = k - 1]

At(t, phrase, i) ==
    /\ i + Len(phrase) <= Len(t) + 1
    /\ SubSeq(t, i, i + Len(phrase) - 1) = phrase

\* Removing a phrase leaves a gap that no longer phrase matches across.
StripFillers(t) ==
    LET filled == {i \in DOMAIN t : \E f \in Filler : \E k \in 0 .. Len(f) - 1 :
                      i > k /\ At(t, f, i - k)}
        kept == Positions(DOMAIN t \ filled)
    IN  [k \in DOMAIN kept |-> t[kept[k]]]

\* "next" is dropped before dateparser sees the phrase.
NormalizeDate(t) ==
    LET bare == FlattenSeq([i \in DOMAIN t |->
                   IF t[i] = "next" /\ i < Len(t) THEN <<>> ELSE <<t[i]>>]) IN
    IF t # <<>> /\ bare \in Dates THEN bare ELSE <<>>

NormalizePriority(t) ==
    IF Len(t) = 1 /\ t[1] \in Priorities THEN t[1] ELSE "medium"

\* The first of the phrases that is not empty, if any.
FirstOf(phrases) ==
    LET spoken == {k \in DOMAIN phrases : phrases[k] # <<>>}
    IN  IF spoken = {} THEN <<>> ELSE phrases[Min(spoken)]

-----------------------------------------------------------------------------
\* Segments and dimensions.

\* Mutant: every "command" begins a segment.
BeginsAnywhere(t) == {i \in DOMAIN t : t[i] = "command" /\ i < Len(t)}

Begins(t) == {i \in DOMAIN t : /\ t[i] = "command" /\ i < Len(t)
                               /\ t[i + 1] \in Operations}

\* The text before the first segment is discarded.
SplitCommands(t) ==
    LET begins == Positions(Begins(t))
    IN  [k \in DOMAIN begins |->
            SubSeq(t, begins[k] + 1,
                   IF k < Len(begins) THEN begins[k + 1] - 1 ELSE Len(t))]

Marks(t, i) == i + 2 <= Len(t) /\ t[i] = "dimension" /\ t[i + 2] = "value"

\* Matches do not overlap: one that starts inside the previous one is none.
Markers(t) == {i \in DOMAIN t : Marks(t, i) /\ (i > 1 => ~Marks(t, i - 1))}

Preamble(t) ==
    StripFillers(IF Markers(t) = {} THEN t ELSE SubSeq(t, 1, Min(Markers(t)) - 1))

ValueAt(t, m) ==
    LET later == {n \in Markers(t) : n > m}
    IN  SubSeq(t, m + 3, IF later = {} THEN Len(t) ELSE Min(later) - 1)

\* Unknown keys and empty values are skipped; a later value replaces an
\* earlier one.
Dimensions(t, table) ==
    LET valid == {m \in Markers(t) : /\ t[m + 1] \in TableDimensions[table]
                                     /\ ValueAt(t, m) # <<>>}
    IN  [key \in {t[m + 1] : m \in valid} |->
            ValueAt(t, Max({m \in valid : t[m + 1] = key}))]

Get(dimensions, key) ==
    IF key \in DOMAIN dimensions THEN dimensions[key] ELSE <<>>

-----------------------------------------------------------------------------
\* Commands.

\* A parsed segment: the list it goes to, and what is appended there.
Parsed(list, data) == [list |-> list, data |-> data]

BuildTask(preamble, dimensions) ==
    LET content == Get(dimensions, "content")
        title == FirstOf(<<Get(dimensions, "title"), preamble, content>>)
    IN  IF title = <<>> THEN Parsed("errors", "task missing title")
        ELSE Parsed("tasks",
                    [title |-> title, description |-> content,
                     due_date |-> NormalizeDate(Get(dimensions, "date")),
                     priority |-> NormalizePriority(Get(dimensions, "priority")),
                     label |-> Get(dimensions, "label")])

BuildNote(preamble, dimensions) ==
    LET content == Get(dimensions, "content")
        title == FirstOf(<<Get(dimensions, "title"), preamble>>)
    IN  IF content = <<>> THEN Parsed("errors", "note missing content")
        ELSE Parsed("notes",
                    [title |-> title, content |-> content,
                     tag |-> Get(dimensions, "tag"),
                     noted_at |-> NormalizeDate(Get(dimensions, "date"))])

\* Reads, updates and deletes name their target by the first number after the
\* table; only an update goes on to its dimensions.
BuildCommand(operation, table, body) ==
    LET numbers == {i \in DOMAIN body : body[i] \in Number}
    IN  IF numbers = {} THEN Parsed("errors", "unrecognized")
        ELSE Parsed("commands",
                    [operation |-> operation, table |-> table,
                     target_id |-> body[Min(numbers)],
                     dimensions |->
                        IF operation = "update"
                        THEN Dimensions(From(body, Min(numbers) + 1), table)
                        ELSE [key \in {} |-> <<>>]])

\* The operation is the segment's first word; the table is its first table
\* word, whatever comes before it.
ParseSegment(segment) ==
    LET tables == {i \in DOMAIN segment : segment[i] \in Tables}
        table == segment[Min(tables)]
        body == From(segment, Min(tables) + 1)
    IN  CASE tables = {} -> Parsed("errors", "unrecognized")
          [] tables # {} /\ segment[1] = "create" /\ table = "task" ->
                BuildTask(Preamble(body), Dimensions(body, table))
          [] tables # {} /\ segment[1] = "create" /\ table = "note" ->
                BuildNote(Preamble(body), Dimensions(body, table))
          [] OTHER -> BuildCommand(segment[1], table, body)

-----------------------------------------------------------------------------
\* What callers mean, and how they say it. An utterance is a command with the
\* words that may come between its parts; heading is what its preamble means.

Spoken(dims) ==
    FlattenSeq([k \in DOMAIN dims |->
        <<"dimension", dims[k].key, "value">> \o dims[k].value])

\* What comes after the target: the preamble, and the dimensions.
Details(u) == u.preamble \o Spoken(u.dims)

Segment(u) ==
    (<<u.operation>> \o u.lead \o <<u.table>>) \o (u.number \o Details(u))

Rendered(u) == <<"command">> \o Segment(u)

Text(utterances) == FlattenSeq([k \in DOMAIN utterances |-> Rendered(utterances[k])])

\* The last value the utterance gives for a key of its table, if any.
Said(u, key) ==
    LET given == {k \in DOMAIN u.dims : u.dims[k].key = key /\ u.dims[k].value # <<>>}
    IN  IF given = {} THEN <<>> ELSE u.dims[Max(given)].value

\* What a date means: callers may say "next" before it.
Due(phrase) ==
    IF phrase # <<>> /\ phrase[1] = "next" /\ Tail(phrase) \in Dates THEN Tail(phrase)
    ELSE IF phrase \in Dates THEN phrase ELSE <<>>

\* docs/SPEC.md: the title is the title dimension, else the preamble, else the
\* content; a task needs one, a note needs content, the rest needs a number.
Meaning(u) ==
    LET heading == FirstOf(<<Said(u, "title"), u.heading>>)
        content == Said(u, "content")
        title == FirstOf(<<heading, content>>)
        keys == {u.dims[k].key : k \in DOMAIN u.dims}
    IN  CASE u.operation = "create" /\ u.table = "task" /\ title # <<>> ->
               Parsed("tasks", [title |-> title, description |-> content,
                                due_date |-> Due(Said(u, "date")),
                                priority |-> IF \E p \in Priorities :
                                                   Said(u, "priority") = <<p>>
                                             THEN Said(u, "priority")[1]
                                             ELSE "medium",
                                label |-> Said(u, "label")])
          [] u.operation = "create" /\ u.table = "task" /\ title = <<>> ->
               Parsed("errors", "task missing title")
          [] u.operation = "create" /\ u.table = "note" /\ content # <<>> ->
               Parsed("notes", [title |-> heading, content |-> content,
                                tag |-> Said(u, "tag"),
                                noted_at |-> Due(Said(u, "date"))])
          [] u.operation = "create" /\ u.table = "note" /\ content = <<>> ->
               Parsed("errors", "note missing content")
          [] u.operation # "create" /\ u.number # <<>> ->
               Parsed("commands",
                      [operation |-> u.operation, table |-> u.table,
                       target_id |-> u.number[1],
                       dimensions |->
                          [key \in {key \in keys \cap TableDimensions[u.table] :
                                      u.operation = "update" /\ Said(u, key) # <<>>}
                              |-> Said(u, key)]])
          [] OTHER -> Parsed("errors", "unrecognized")

-----------------------------------------------------------------------------
\* The grammar.

Keys == TableDimensions.task \cup TableDimensions.note

Keywords == Keys \cup Operations \cup Tables \cup {"command", "dimension", "value"}

Utterance ==
    [operation : Operations, table : Tables, lead : Seq(Vocabulary),
     number : Seq(Number), preamble : Seq(Vocabulary), heading : Seq(Vocabulary),
     dims : Seq([key : Keys, value : Seq(Vocabulary)])]

\* A part of an utterance begins no command and gives no dimension; keywords may
\* be in it otherwise.
NoCommand(t) == \A i \in 1 .. Len(t) - 1 : t[i] = "command" => t[i + 1] \notin Operations

NoMarker(t) == \A i \in 1 .. Len(t) - 2 : ~(t[i] = "dimension" /\ t[i + 2] = "value")

\* The number belongs to the commands that need one; without it, there is none in
\* what follows.  A date may have "next" in front.
Grammatical(u) ==
    LET values == {u.dims[k].value : k \in DOMAIN u.dims}
    IN  /\ ToSet(u.lead) \cap Tables = {} /\ Len(u.number) <= 1
        /\ \A t \in {u.lead, u.preamble} \cup values : NoCommand(t)
        /\ \A t \in {u.preamble} \cup values : NoMarker(t)
        /\ u.operation = "create" => u.number = <<>>
        /\ u.operation # "create" /\ u.number = <<>> =>
              \A t \in {u.preamble} \cup values : ToSet(t) \cap Number = {}
        /\ \A k \in DOMAIN u.dims : u.dims[k].key = "date" =>
              \A i \in 2 .. Len(u.dims[k].value) : u.dims[k].value[i] # "next"

ASSUME GrammarAssumption ==
    /\ Number \cup Keywords \subseteq Vocabulary /\ Number \cap Keywords = {}
    /\ \A date \in Dates : date # <<>> /\ "next" \notin ToSet(date)
    /\ \A s \in Speeches :
          /\ s.preface \in Seq(Vocabulary) /\ NoCommand(s.preface)
          /\ s.utterances \in Seq(Utterance)
          /\ \A k \in DOMAIN s.utterances :
                LET u == s.utterances[k]
                IN  Grammatical(u) /\ u.heading = StripFillers(u.preamble)

-----------------------------------------------------------------------------

Init ==
    /\ speech \in Speeches
    /\ todo = SplitCommands(speech.preface \o Text(speech.utterances))
    /\ result = Empty

ParseNext ==
    LET parsed == ParseSegment(Head(todo)) IN
    /\ todo # <<>>
    /\ todo' = Tail(todo)
    /\ result' = [result EXCEPT ![parsed.list] = Append(@, parsed.data)]
    /\ UNCHANGED speech

Next == ParseNext

Spec == Init /\ [][Next]_vars

-----------------------------------------------------------------------------

\* Whatever is said by the grammar is understood: every command gives its own
\* meaning, in order, whatever comes before or after it, with keywords inside
\* values and with fillers around its parts (parse_transcription).
Understood ==
    todo = <<>> =>
        \A list \in DOMAIN Empty :
            result[list] = FlattenSeq([k \in DOMAIN speech.utterances |->
                LET meant == Meaning(speech.utterances[k])
                IN  IF meant.list = list THEN <<meant.data>> ELSE <<>>])
=============================================================================
