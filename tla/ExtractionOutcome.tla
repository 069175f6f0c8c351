------------------------- MODULE ExtractionOutcome -------------------------
(***************************************************************************)
(* What one PDF yields (app/valuation_statement/field_extractor.py,        *)
(* _context.py, _ocr.py, and decide_extraction of extraction.py): /decide  *)
(* foretells whether the file needs OCR; the extraction reads it, by OCR   *)
(* if it has no text, and fills every slot of the template with the first  *)
(* strategy of its chain that applies.                                     *)
(*                                                                         *)
(* A text is the set of the marks the regular expressions look for:        *)
(* banners, and labels with a value beside or below them.  A found value   *)
(* is Read, except where the code decides by it.  The extras (comparable   *)
(* sales, jointly mortgaged properties), the lengths and hashes in the     *)
(* diagnostics and the estimated seconds are left out.  The texts of later *)
(* pages are those of PyMuPDF: a text that only pdfplumber sees, on a page *)
(* after the first, is ruled out by the docstring of decide_extraction.    *)
(***************************************************************************)
EXTENDS Naturals, Sequences, FiniteSetsExt, SequencesExt

CONSTANTS
    Documents,    \* the PDFs that may be uploaded
    MinDrawings,  \* _SUBKIND_MIN_DRAWINGS
    None

VARIABLES
    doc,          \* the PDF, the same throughout
    at,           \* where the request is
    decision,     \* what /decide answered, or None if it was not asked
    ctx,          \* the ParseContext
    fields,       \* the result by slot
    diagnostics

vars == <<doc, at, decision, ctx, fields, diagnostics>>

Guard == {"prose", "uc_br", "uc_smahus", "lgh", "fr"}

\* A banner that OCR broke with junk between its words.
Broken == [uc_br |-> "uc_br broken", uc_smahus |-> "uc_smahus broken",
           fr |-> "fr broken"]

\* Labels with a value, in a text and in the word grid of the first page.
TextLabel ==
    {"prose Objekt", "prose Adress", "prose Kommun", "prose Bostadsratt",
     "prose Frikopt", "bedoms till", "intervall om", "d/m/yyyy",
     "iso date", "timestamp", "Totalareal", "fr Adress", "fr postort",
     "fr Aktualitetsdatum", "lgh nr", "lgh Forening", "lgh orgnr",
     "lgh Adress", "lgh postort", "Utskriftsdatum"}

CellLabel ==
    {"Adress", "LGH", "Foreningsinformation", "Organisationsnummer",
     "Fastighetsbeteckning", "Kommun", "postort", "Marknadsvarde",
     "Osakerhetuppat", "Beteckning", "Aktualitetsdatum"}

Text == SUBSET (Guard \cup {Broken[g] : g \in DOMAIN Broken} \cup TextLabel
                \cup {"other text"})

Subkind == {"raster_scan", "reprinted_vector", "unknown"}

Page == [fonts : Nat, paths : Nat, image : BOOLEAN]

\* The text and the cells a program reads off the first page, the text
\* PyMuPDF reads, what Tesseract would read, and what else is on the pages.
Document == [page1 : Text, fitz : Text, cells : SUBSET CellLabel,
             scans : Seq(Text), scanCells : SUBSET CellLabel,
             pages : Seq(Page)]

ASSUME MinDrawingsAssumption == MinDrawings \in Nat \ {0}

ASSUME NoneAssumption ==
    None \notin Subkind \cup {"Read", "bostadsratt", "fastighet",
                              "Bostadsratt", "Frikopt", "datavardering",
                              "lagenhetsforteckning", "fastighetsutdrag"}

ASSUME DocumentsAssumption ==
    \A d \in Documents :
        /\ d \in Document
        /\ Len(d.pages) > 0
        /\ Len(d.scans) = Len(d.pages)
        /\ d.page1 = {} => d.cells = {}

-----------------------------------------------------------------------------
(* The kind of an image-only PDF *)

\* One page: drawings are counted until there are enough of them.
Look(seen, page) ==
    [fonts |-> seen.fonts + page.fonts,
     drawings |-> IF seen.drawings < MinDrawings
                  THEN seen.drawings + page.paths ELSE seen.drawings,
     image |-> seen.image \/ page.image]

NoTextSubkind(pages) ==
    LET seen == FoldLeft(Look, [fonts |-> 0, drawings |-> 0, image |-> FALSE],
                         pages) IN
    IF seen.image /\ seen.drawings < MinDrawings THEN "raster_scan"
    ELSE IF /\ seen.fonts = 0
            /\ seen.drawings >= MinDrawings
            /\ ~seen.image
         THEN "reprinted_vector" ELSE "unknown"

-----------------------------------------------------------------------------
(* Guards and strategies *)

\* Two guards belong to texts with a rendering of their own.
TextRead(c, g) == IF g = "lgh" THEN c.fitz ELSE c.page1

Matches(c, g) ==
    \/ g \in TextRead(c, g)
    \/ c.ocr_used /\ g \in DOMAIN Broken /\ Broken[g] \in c.page1

GuardsMatched(c) == {g \in Guard : Matches(c, g)}

Uc == {"uc_br", "uc_smahus"}

\* One of the guards must match and all marks must be there.
Strategy(guards, marks, cells, value) ==
    [guards |-> guards, marks |-> marks, cells |-> cells, value |-> value,
     ocrOnly |-> FALSE]

Applies(c, s) ==
    /\ \E g \in s.guards : Matches(c, g)
    /\ s.marks \subseteq (IF s.guards \subseteq {"lgh", "fr"} THEN c.fitz
                          ELSE c.page1)
    /\ s.cells \subseteq c.cells
    /\ s.ocrOnly => c.ocr_used

ObjektChain ==
    << Strategy({"prose"}, {"prose Objekt"}, {}, "Read"),
       Strategy({"uc_br"}, {}, {"Adress", "LGH", "Foreningsinformation",
                                "Organisationsnummer"}, "Read"),
       Strategy({"uc_smahus"}, {}, {"Fastighetsbeteckning"}, "Read"),
       Strategy({"fr"}, {}, {"Beteckning"}, "Read"),
       [Strategy({"fr"}, {"Totalareal"}, {}, "Read") EXCEPT !.ocrOnly = TRUE],
       Strategy({"lgh"}, {"lgh nr", "lgh Forening", "lgh orgnr"}, {}, "Read") >>

AdressChain ==
    << Strategy({"prose"}, {"prose Adress"}, {}, "Read"),
       Strategy(Uc, {}, {"Adress"}, "Read"),
       Strategy({"fr"}, {"fr Adress"}, {}, "Read"),
       Strategy({"lgh"}, {"lgh Adress"}, {}, "Read") >>

KommunChain ==
    << Strategy({"prose"}, {"prose Kommun"}, {}, "Read"),
       Strategy(Uc, {}, {"Kommun"}, "Read"),
       Strategy(Uc, {}, {"Adress", "postort"}, "Read"),
       Strategy({"fr"}, {"fr Adress", "fr postort"}, {}, "Read"),
       Strategy({"lgh"}, {"lgh Adress", "lgh postort"}, {}, "Read") >>

\* The bullet of a prose appraisal, by what it says.
ProseForm(bostadsratt, frikopt) ==
    << Strategy({"prose"}, {"prose Bostadsratt"}, {}, bostadsratt),
       Strategy({"prose"}, {"prose Frikopt"}, {}, frikopt) >>

\* Mutant: the strategies of the two UC banners are swapped.
FormChainSwapped ==
    ProseForm("Bostadsratt", "Frikopt") \o
    << Strategy({"uc_smahus"}, {}, {}, "Frikopt"),
       Strategy({"uc_br"}, {}, {}, "Bostadsratt"),
       Strategy({"fr"}, {}, {}, "Frikopt"),
       Strategy({"lgh"}, {}, {}, "Bostadsratt") >>

FormChain ==
    ProseForm("Bostadsratt", "Frikopt") \o
    << Strategy({"uc_br"}, {}, {}, "Bostadsratt"),
       Strategy({"uc_smahus"}, {}, {}, "Frikopt"),
       Strategy({"fr"}, {}, {}, "Frikopt"),
       Strategy({"lgh"}, {}, {}, "Bostadsratt") >>

ValueChain ==
    << Strategy(Uc, {}, {"Marknadsvarde"}, "Read"),
       Strategy({"prose"}, {"bedoms till"}, {}, "Read") >>

IntervalChain ==
    << Strategy(Uc, {}, {"Osakerhetuppat"}, "Read"),
       Strategy({"prose"}, {"bedoms till", "intervall om"}, {}, "Read") >>

DateChain ==
    << Strategy(Uc, {"timestamp"}, {}, "Read"),
       Strategy(Uc, {"iso date"}, {}, "Read"),
       Strategy({"prose"}, {"d/m/yyyy"}, {}, "Read"),
       Strategy({"lgh"}, {"Utskriftsdatum"}, {}, "Read"),
       Strategy({"fr"}, {}, {"Aktualitetsdatum"}, "Read"),
       Strategy({"fr"}, {"fr Aktualitetsdatum"}, {}, "Read"),
       Strategy({"fr"}, {"timestamp"}, {}, "Read") >>

SourceChain ==
    << Strategy({"prose"} \cup Uc, {}, {}, "datavardering"),
       Strategy({"lgh"}, {}, {}, "lagenhetsforteckning"),
       Strategy({"fr"}, {}, {}, "fastighetsutdrag") >>

ShapeChain ==
    ProseForm("bostadsratt", "fastighet") \o
    << Strategy({"uc_br"}, {}, {}, "bostadsratt"),
       Strategy({"uc_smahus"}, {}, {}, "fastighet"),
       Strategy({"lgh"}, {}, {}, "bostadsratt"),
       Strategy({"fr"}, {}, {}, "fastighet") >>

\* objekt_short runs the chain of objekt again.
Chain == [objekt |-> ObjektChain, objekt_short |-> ObjektChain,
          adress |-> AdressChain, kommun |-> KommunChain,
          upplatelseform |-> FormChain, marknadsvarde_kr |-> ValueChain,
          intervall_kr |-> IntervalChain, document_date |-> DateChain,
          source_class |-> SourceChain, property_shape |-> ShapeChain]

Slot == DOMAIN Chain

SemanticPrimitive == {"source_class", "property_shape"}

ValueSlot == Slot \ SemanticPrimitive

NotFound == [value |-> None, confidence |-> "not_found"]

\* The first strategy that applies fills the slot.
Fill(c, slot) ==
    LET i == SelectInSeq(Chain[slot], LAMBDA s : Applies(c, s)) IN
    IF i = 0 THEN NotFound
    ELSE [value |-> Chain[slot][i].value, confidence |-> "confident"]

\* Mutant: a slot that was not found becomes uncertain as well.
MarkAll(slot, f) ==
    IF slot \in SemanticPrimitive THEN f
    ELSE [f EXCEPT !.confidence = "uncertain"]

\* Mutant: the derived slot is passed over.
MarkOriginals(slot, f) ==
    IF slot \in SemanticPrimitive \cup {"objekt_short"} THEN f
    ELSE IF f = NotFound THEN f ELSE [f EXCEPT !.confidence = "uncertain"]

\* What the review is told of a value that came off a raster.
MarkOcrConfidence(slot, f) ==
    IF slot \in SemanticPrimitive \/ f = NotFound THEN f
    ELSE [f EXCEPT !.confidence = "uncertain"]

-----------------------------------------------------------------------------
(* The outcome *)

Field == [value : {"Read", "bostadsratt", "fastighet", "Bostadsratt",
                   "Frikopt", "datavardering", "lagenhetsforteckning",
                   "fastighetsutdrag", None},
          confidence : {"confident", "uncertain", "not_found"}]

CoreExpectedSlots == {"objekt", "objekt_short", "upplatelseform",
                      "document_date"}

Filled(f) == {s \in ValueSlot : f[s].confidence # "not_found"}

CarriesText(c) == c.page1 # {} \/ c.fitz # {}

\* Mutant: a layout that was recognised comes before the OCR.
OutcomeByGuards(c, filled) ==
    CASE filled # {} -> IF CoreExpectedSlots \subseteq filled
                        THEN "extracted" ELSE "partial"
      [] filled = {} /\ GuardsMatched(c) # {} -> "recognised_no_fields"
      [] OTHER -> IF c.ocr_used \/ ~CarriesText(c) THEN "no_text"
                  ELSE "unrecognised"

Outcome(c, filled) ==
    CASE filled # {} -> IF CoreExpectedSlots \subseteq filled
                        THEN "extracted" ELSE "partial"
      [] filled = {} /\ c.ocr_used -> "no_text"
      [] filled = {} /\ ~c.ocr_used /\ GuardsMatched(c) # {} ->
            "recognised_no_fields"
      [] OTHER -> IF CarriesText(c) THEN "unrecognised" ELSE "no_text"

Context == [page1 : Text, fitz : Text, cells : SUBSET CellLabel,
            ocr_used : BOOLEAN, subkind : Subkind \cup {None}]

\* The result has every slot, and a slot has a value exactly if it was found,
\* also after the OCR marking (ExtractedField).
TypeOK ==
    /\ doc \in Document
    /\ at \in {"idle", "classify", "ocr", "words", "fill", "diagnose",
               "answered"}
    /\ decision = None \/ decision \in [ocr_required : BOOLEAN,
                                        subkind : Subkind \cup {None}]
    /\ ctx \in Context
    /\ fields \in [Slot -> Field]
    /\ \A s \in Slot : fields[s].value = None <=>
                       fields[s].confidence = "not_found"
    /\ diagnostics = None \/ diagnostics \in
          [outcome : {"extracted", "partial", "recognised_no_fields",
                      "unrecognised", "no_text"},
           matched : SUBSET Guard, missed : SUBSET CoreExpectedSlots]

Init ==
    /\ doc \in Documents
    /\ at = "idle"
    /\ decision = None
    /\ ctx = [page1 |-> {}, fitz |-> {}, cells |-> {}, ocr_used |-> FALSE,
              subkind |-> None]
    /\ fields = [s \in Slot |-> NotFound]
    /\ diagnostics = None

-----------------------------------------------------------------------------

\* /decide looks at the text of PyMuPDF alone.  It fails if the
\* classification does: the client goes on without its answer.
Decide ==
    /\ at = "idle" /\ decision = None
    /\ decision' = [ocr_required |-> doc.fitz = {},
                    subkind |-> IF doc.fitz = {} THEN NoTextSubkind(doc.pages)
                                ELSE None]
    /\ UNCHANGED <<doc, at, ctx, fields, diagnostics>>

\* Mutant: the trigger of the OCR asks pdfplumber only.
NativePage1(d) == d.page1 # {}

NativeText(d) == d.page1 # {} \/ d.fitz # {}

ReadNative ==
    /\ at = "idle"
    /\ ctx' = [page1 |-> doc.page1, fitz |-> doc.fitz, cells |-> doc.cells,
               ocr_used |-> FALSE, subkind |-> None]
    /\ at' = IF NativeText(doc) THEN "fill" ELSE "classify"
    /\ UNCHANGED <<doc, decision, fields, diagnostics>>

\* The classification may fail, which costs the hint only.
Classify ==
    /\ at = "classify"
    /\ \E subkind \in {NoTextSubkind(doc.pages), None} :
          ctx' = [ctx EXCEPT !.subkind = subkind]
    /\ at' = "ocr"
    /\ UNCHANGED <<doc, decision, fields, diagnostics>>

OcrPages ==
    /\ at = "ocr"
    /\ ctx' = [ctx EXCEPT !.page1 = doc.scans[1],
                          !.fitz = UNION {doc.scans[i] : i \in DOMAIN doc.scans},
                          !.ocr_used = TRUE]
    /\ at' = "words"
    /\ UNCHANGED <<doc, decision, fields, diagnostics>>

OcrWords ==
    /\ at = "words"
    /\ ctx' = [ctx EXCEPT !.cells = IF doc.scanCells = {} THEN @
                                    ELSE doc.scanCells]
    /\ at' = "fill"
    /\ UNCHANGED <<doc, decision, fields, diagnostics>>

\* Mutant: a second pass that fails starts the OCR over.
StartOver ==
    /\ at \in {"ocr", "words"}
    /\ at' = IF at = "ocr" THEN "fill" ELSE "ocr"
    /\ UNCHANGED <<doc, decision, ctx, fields, diagnostics>>

\* Either pass of the OCR fails: the extraction goes on with what it has.
OcrFault ==
    /\ at \in {"ocr", "words"}
    /\ at' = "fill"
    /\ UNCHANGED <<doc, decision, ctx, fields, diagnostics>>

FillSlots ==
    /\ at = "fill"
    /\ fields' = [s \in Slot |-> IF ctx.ocr_used
                                 THEN MarkOcrConfidence(s, Fill(ctx, s))
                                 ELSE Fill(ctx, s)]
    /\ at' = "diagnose"
    /\ UNCHANGED <<doc, decision, ctx, diagnostics>>

BuildDiagnostics ==
    LET filled == Filled(fields) IN
    /\ at = "diagnose"
    /\ diagnostics' = [outcome |-> Outcome(ctx, filled),
                       matched |-> GuardsMatched(ctx),
                       missed |-> IF filled = {} THEN {}
                                  ELSE CoreExpectedSlots \ filled]
    /\ at' = "answered"
    /\ UNCHANGED <<doc, decision, ctx, fields>>

Next == \/ Decide \/ ReadNative \/ Classify \/ OcrPages \/ OcrWords
        \/ OcrFault \/ FillSlots \/ BuildDiagnostics

Spec == Init /\ [][Next]_vars /\ WF_vars(Next)

-----------------------------------------------------------------------------

\* A value read off a raster never reaches the operator as confident, and one
\* read off a text layer is not doubted (_mark_ocr_confidence).
OcrNeverConfident ==
    at = "answered" =>
        \A s \in Filled(fields) :
            fields[s].confidence = (IF doc.page1 = {} /\ doc.fitz = {}
                                    THEN "uncertain" ELSE "confident")

\* upplatelseform and property_shape put the template into the same mode,
\* whatever banners a document shows; the chains rank a Fastighetsrapport and
\* a lagenhetsforteckning in one PDF differently.
ShapeAgrees ==
    LET shape == fields["property_shape"].value
        form == fields["upplatelseform"].value
    IN at = "answered" /\ ~({"lgh", "fr"} \subseteq diagnostics.matched) =>
          /\ shape = "bostadsratt" <=> form = "Bostadsratt"
          /\ shape = "fastighet" <=> form = "Frikopt"

\* What /decide said holds of the extraction that follows: OCR only where it
\* was announced, and the same kind of document if any is named.
DecideForetells ==
    decision # None =>
        /\ ctx.ocr_used => decision.ocr_required
        /\ ctx.subkind # None => ctx.subkind = decision.subkind

\* no_text is said of the documents without native text that yielded
\* nothing, OCR or not, and of no others (ExtractionDiagnostics).
NoTextHonest ==
    at = "answered" =>
        (diagnostics.outcome = "no_text" <=>
            doc.page1 = {} /\ doc.fitz = {} /\ Filled(fields) = {})

\* Every document gets an answer, whatever fails on the way to it: neither
\* the classification nor the OCR costs more than what it adds.
Answered == <>(at = "answered")
=============================================================================
