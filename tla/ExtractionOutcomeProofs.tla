----------------------- MODULE ExtractionOutcomeProofs -----------------------
(***************************************************************************)
(* What is said of a document is so, for any documents, any number of      *)
(* pages and any marks on them, and whatever fails on the way.  The        *)
(* induction needs what the context holds by where the request is: the     *)
(* text of the document, or nothing until the OCR has put its own there.   *)
(***************************************************************************)
EXTENDS ExtractionOutcome, WellFoundedInduction, TLAPS

-----------------------------------------------------------------------------
\* The first strategy that applies.

LEMMA Least ==
    ASSUME NEW T, T \subseteq Nat, T # {}
    PROVE  Min(T) \in T /\ \A x \in T : Min(T) <= x
<1> DEFINE R == OpToRel(<, Nat)
<1>1. IsWellFoundedOn(R, Nat)
  BY NatLessThanWellFounded, Zenon
<1>2. \A y \in Nat, x \in Nat : y < x => <<y, x>> \in R
  <2>1. R = {ss \in Nat \X Nat : ss[1] < ss[2]}
    BY Zenon DEF OpToRel
  <2> QED
    BY <2>1
<1> HIDE DEF R
<1>3. PICK m \in T : \A y \in T : <<y, m>> \notin R
  BY <1>1, WFMin
<1>4. \A y \in T : m <= y
  <2> SUFFICES ASSUME NEW y \in T PROVE m <= y
    OBVIOUS
  <2>1. y \in Nat /\ m \in Nat
    OBVIOUS
  <2>2. ~(y < m)
    BY <1>2, <1>3, <2>1
  <2> QED
    BY <2>1, <2>2
<1> QED
  BY <1>3, <1>4 DEF Min

\* None of the strategies before the k-th applies.
FirstAt(c, chain, k) ==
    /\ k \in 1 .. Len(chain) /\ Applies(c, chain[k])
    /\ \A i \in 1 .. k - 1 : ~Applies(c, chain[i])

LEMMA Select ==
    ASSUME NEW c, NEW chain, Len(chain) \in Nat,
           NEW k, k = SelectInSeq(chain, LAMBDA s : Applies(c, s))
    PROVE  \/ k = 0 /\ \A i \in 1 .. Len(chain) : ~Applies(c, chain[i])
           \/ k # 0 /\ FirstAt(c, chain, k)
<1> DEFINE S == {i \in 1 .. Len(chain) : Applies(c, chain[i])}
<1>1. k = IF S # {} THEN Min(S) ELSE 0
  BY DEF SelectInSeq
<1>2. CASE S = {}
  BY <1>1, <1>2
<1>3. CASE S # {}
  <2>1. k \in S /\ \A x \in S : k <= x
    <3>1. S \subseteq Nat
      OBVIOUS
    <3> HIDE DEF S
    <3> QED
      BY <1>1, <1>3, <3>1, Least
  <2>2. k \in 1 .. Len(chain) /\ Applies(c, chain[k])
    BY <2>1
  <2>3. ASSUME NEW i \in 1 .. k - 1 PROVE ~Applies(c, chain[i])
    <3>1. i \in 1 .. Len(chain) /\ ~(k <= i)
      BY <2>2
    <3>2. i \notin S
      BY <2>1, <3>1
    <3> QED
      BY <3>1, <3>2
  <2>4. k # 0
    BY <2>2
  <2> HIDE DEF S
  <2> QED
    BY <2>2, <2>3, <2>4 DEF FirstAt
<1> QED
  BY <1>2, <1>3

\* What a field can say when something was found.
Value == {"Read", "bostadsratt", "fastighet", "Bostadsratt", "Frikopt",
          "datavardering", "lagenhetsforteckning", "fastighetsutdrag"}

StrategyType == [guards : SUBSET Guard, marks : SUBSET TextLabel,
                 cells : SUBSET CellLabel, value : Value, ocrOnly : BOOLEAN]

LEMMA ChainsTyped == \A slot \in Slot : Chain[slot] \in Seq(StrategyType)
<1>1. ObjektChain \in Seq(StrategyType)
  <2> DEFINE ocr == [Strategy({"fr"}, {"Totalareal"}, {}, "Read")
                        EXCEPT !.ocrOnly = TRUE]
  <2>1. ocr \in StrategyType
    BY DEF Strategy, StrategyType, Guard, TextLabel, Value
  <2> HIDE DEF ocr
  <2>2. \A s1, s2, s3, s4, s6 \in StrategyType :
           <<s1, s2, s3, s4, ocr, s6>> \in Seq(StrategyType)
    BY <2>1
  <2>3. /\ Strategy({"prose"}, {"prose Objekt"}, {}, "Read") \in StrategyType
        /\ Strategy({"uc_br"}, {}, {"Adress", "LGH", "Foreningsinformation",
                                    "Organisationsnummer"}, "Read") \in StrategyType
        /\ Strategy({"uc_smahus"}, {}, {"Fastighetsbeteckning"}, "Read")
              \in StrategyType
        /\ Strategy({"fr"}, {}, {"Beteckning"}, "Read") \in StrategyType
        /\ Strategy({"lgh"}, {"lgh nr", "lgh Forening", "lgh orgnr"}, {}, "Read")
              \in StrategyType
    BY DEF Strategy, StrategyType, Guard, TextLabel, CellLabel, Value
  <2> QED
    BY <2>2, <2>3 DEF ObjektChain, ocr
<1>2. AdressChain \in Seq(StrategyType)
  BY DEF AdressChain, Strategy, StrategyType, Guard, TextLabel, CellLabel, Value, Uc
<1>3. KommunChain \in Seq(StrategyType)
  BY DEF KommunChain, Strategy, StrategyType, Guard, TextLabel, CellLabel, Value, Uc
<1>4. FormChain \in Seq(StrategyType)
  BY DEF FormChain, ProseForm, Strategy, StrategyType, Guard, TextLabel, CellLabel,
     Value, Uc
<1>5. ValueChain \in Seq(StrategyType)
  BY DEF ValueChain, Strategy, StrategyType, Guard, TextLabel, CellLabel, Value, Uc
<1>6. IntervalChain \in Seq(StrategyType)
  BY DEF IntervalChain, Strategy, StrategyType, Guard, TextLabel, CellLabel, Value, Uc
<1>7. DateChain \in Seq(StrategyType)
  BY DEF DateChain, Strategy, StrategyType, Guard, TextLabel, CellLabel, Value, Uc
<1>8. SourceChain \in Seq(StrategyType)
  BY DEF SourceChain, Strategy, StrategyType, Guard, TextLabel, CellLabel, Value, Uc
<1>9. ShapeChain \in Seq(StrategyType)
  BY DEF ShapeChain, ProseForm, Strategy, StrategyType, Guard, TextLabel, CellLabel,
     Value, Uc
<1> QED
  BY <1>1, <1>2, <1>3, <1>4, <1>5, <1>6, <1>7, <1>8, <1>9 DEF Slot, Chain

\* Every strategy waits for guards of the code and finds a value.
LEMMA ChainsWellFormed ==
    ASSUME NEW slot \in Slot
    PROVE  /\ Len(Chain[slot]) \in Nat
           /\ \A i \in 1 .. Len(Chain[slot]) : /\ Chain[slot][i].guards \subseteq Guard
                                               /\ Chain[slot][i].value \in Value
<1>1. Chain[slot] \in Seq(StrategyType)
  BY ChainsTyped
<1>2. \A i \in 1 .. Len(Chain[slot]) : Chain[slot][i] \in StrategyType
  BY <1>1
<1> QED
  BY <1>1, <1>2 DEF StrategyType

Found(v) == [value |-> v, confidence |-> "confident"]

LEMMA FillIs ==
    ASSUME NEW c, NEW slot \in Slot
    PROVE  \/ /\ Fill(c, slot) = NotFound
              /\ \A i \in 1 .. Len(Chain[slot]) : ~Applies(c, Chain[slot][i])
           \/ \E k \in 1 .. Len(Chain[slot]) :
                 /\ FirstAt(c, Chain[slot], k)
                 /\ Fill(c, slot) = Found(Chain[slot][k].value)
                 /\ Chain[slot][k].value \in Value
<1> DEFINE k == SelectInSeq(Chain[slot], LAMBDA s : Applies(c, s))
<1>1. Fill(c, slot) = IF k = 0 THEN NotFound ELSE Found(Chain[slot][k].value)
  BY Zenon DEF Fill, Found
<1>2. /\ Len(Chain[slot]) \in Nat
      /\ \A i \in 1 .. Len(Chain[slot]) : Chain[slot][i].value \in Value
  BY ChainsWellFormed
<1>3. \/ k = 0 /\ \A i \in 1 .. Len(Chain[slot]) : ~Applies(c, Chain[slot][i])
      \/ k # 0 /\ FirstAt(c, Chain[slot], k)
  BY <1>2, Select, Zenon
<1> HIDE DEF k
<1> QED
  BY <1>1, <1>2, <1>3 DEF FirstAt

\* Without a guard that matches, nothing is found.
LEMMA NoGuardNoField ==
    ASSUME NEW c, NEW slot \in Slot, GuardsMatched(c) = {}
    PROVE  Fill(c, slot) = NotFound
<1>1. ASSUME NEW k \in 1 .. Len(Chain[slot]) PROVE ~Applies(c, Chain[slot][k])
  <2>1. Chain[slot][k].guards \subseteq Guard
    BY ChainsWellFormed
  <2>2. \A g \in Guard : ~Matches(c, g)
    BY DEF GuardsMatched
  <2> QED
    BY <2>1, <2>2 DEF Applies
<1> QED
  BY <1>1, FillIs DEF FirstAt

-----------------------------------------------------------------------------
\* The fields of a context.

\* What FillSlots gives a slot.
Result(c, slot) == IF c.ocr_used THEN MarkOcrConfidence(slot, Fill(c, slot))
                                 ELSE Fill(c, slot)

LEMMA ResultIs ==
    ASSUME NEW c, NEW slot \in Slot
    PROVE  /\ Result(c, slot) \in Field
           /\ Result(c, slot).value = Fill(c, slot).value
           /\ Result(c, slot).value = None
                 <=> Result(c, slot).confidence = "not_found"
           /\ Result(c, slot).confidence = "not_found" <=> Fill(c, slot) = NotFound
           /\ Result(c, slot).confidence # "not_found" /\ slot \in ValueSlot =>
                 Result(c, slot).confidence = IF c.ocr_used THEN "uncertain"
                                                            ELSE "confident"
<1>1. \/ Fill(c, slot) = NotFound
      \/ \E v \in Value : Fill(c, slot) = Found(v)
  BY FillIs
<1>2. CASE Fill(c, slot) = NotFound
  <2>1. Result(c, slot) = NotFound
    BY <1>2 DEF Result, MarkOcrConfidence
  <2> QED
    BY <1>2, <2>1 DEF NotFound, Field
<1>3. ASSUME NEW v \in Value, Fill(c, slot) = Found(v)
      PROVE  /\ Result(c, slot) \in Field
             /\ Result(c, slot).value = Fill(c, slot).value
             /\ Result(c, slot).value # None
             /\ Result(c, slot).confidence # "not_found" /\ Fill(c, slot) # NotFound
             /\ slot \in ValueSlot =>
                   Result(c, slot).confidence = IF c.ocr_used THEN "uncertain"
                                                              ELSE "confident"
  <2>1. v # None
    BY NoneAssumption DEF Value
  <2>2. Found(v) # NotFound
    BY DEF Found, NotFound
  <2>3. Result(c, slot) = IF c.ocr_used /\ slot \notin SemanticPrimitive
                          THEN [value |-> v, confidence |-> "uncertain"]
                          ELSE [value |-> v, confidence |-> "confident"]
    BY <1>3, <2>2 DEF Result, MarkOcrConfidence, Found
  <2> QED
    BY <1>3, <2>1, <2>2, <2>3 DEF Field, Value, Found, ValueSlot
<1> QED
  BY <1>1, <1>2, <1>3

\* A context without text and OCR has no guard and no field.
LEMMA EmptyContext ==
    ASSUME NEW c, c.page1 = {}, c.fitz = {}, c.ocr_used = FALSE
    PROVE  /\ GuardsMatched(c) = {}
           /\ \A slot \in Slot : Fill(c, slot) = NotFound
<1>1. GuardsMatched(c) = {}
  BY DEF GuardsMatched, Matches, TextRead
<1> QED
  BY <1>1, NoGuardNoField

-----------------------------------------------------------------------------
\* The form and the shape.

\* The strategies of the two chains: the bullet says so, or the banner alone.
Bullet(mark, v) == Strategy({"prose"}, {mark}, {}, v)

Banner(g, v) == Strategy({g}, {}, {}, v)

\* Which of them apply does not depend on what they find.
BulletSays(c, mark) == Applies(c, Bullet(mark, "Read"))

LEMMA BulletApplies ==
    ASSUME NEW c, NEW mark, NEW v
    PROVE  Applies(c, Bullet(mark, v)) <=> BulletSays(c, mark)
  BY DEF BulletSays, Bullet, Applies, Strategy

LEMMA BannerApplies ==
    ASSUME NEW c, NEW g \in Guard, NEW v
    PROVE  Applies(c, Banner(g, v)) <=> Matches(c, g)
  BY DEF Banner, Applies, Strategy

Finds(s, v) == s.value = v

LEMMA BulletFinds ==
    ASSUME NEW mark, NEW v
    PROVE  Finds(Bullet(mark, v), v)
  BY DEF Finds, Bullet, Strategy

LEMMA BannerFinds ==
    ASSUME NEW g, NEW v
    PROVE  Finds(Banner(g, v), v)
  BY DEF Finds, Banner, Strategy

\* What a chain of six strategies finds.
LEMMA SixCases ==
    ASSUME NEW c, NEW slot \in Slot, Len(Chain[slot]) = 6
    PROVE  Fill(c, slot).value =
              IF Applies(c, Chain[slot][1]) THEN Chain[slot][1].value
              ELSE IF Applies(c, Chain[slot][2]) THEN Chain[slot][2].value
              ELSE IF Applies(c, Chain[slot][3]) THEN Chain[slot][3].value
              ELSE IF Applies(c, Chain[slot][4]) THEN Chain[slot][4].value
              ELSE IF Applies(c, Chain[slot][5]) THEN Chain[slot][5].value
              ELSE IF Applies(c, Chain[slot][6]) THEN Chain[slot][6].value
              ELSE None
<1>1. NotFound.value = None /\ \A v : Found(v).value = v
  BY DEF NotFound, Found
<1>2. CASE /\ Fill(c, slot) = NotFound
           /\ \A i \in 1 .. 6 : ~Applies(c, Chain[slot][i])
  BY <1>1, <1>2
<1>3. ASSUME NEW k \in 1 .. 6, FirstAt(c, Chain[slot], k),
             Fill(c, slot) = Found(Chain[slot][k].value)
      PROVE  Fill(c, slot).value =
              IF Applies(c, Chain[slot][1]) THEN Chain[slot][1].value
              ELSE IF Applies(c, Chain[slot][2]) THEN Chain[slot][2].value
              ELSE IF Applies(c, Chain[slot][3]) THEN Chain[slot][3].value
              ELSE IF Applies(c, Chain[slot][4]) THEN Chain[slot][4].value
              ELSE IF Applies(c, Chain[slot][5]) THEN Chain[slot][5].value
              ELSE IF Applies(c, Chain[slot][6]) THEN Chain[slot][6].value
              ELSE None
  <2>1. /\ Applies(c, Chain[slot][k])
        /\ \A i \in 1 .. k - 1 : ~Applies(c, Chain[slot][i])
        /\ Fill(c, slot).value = Chain[slot][k].value
    BY <1>1, <1>3 DEF FirstAt
  <2>2. k \in {1, 2, 3, 4, 5, 6}
    OBVIOUS
  <2> QED
    BY <2>1, <2>2
<1> QED
  BY <1>2, <1>3, FillIs

LEMMA ShapeFollowsForm ==
    ASSUME NEW c, ~({"lgh", "fr"} \subseteq GuardsMatched(c))
    PROVE  LET shape == Fill(c, "property_shape").value
               form == Fill(c, "upplatelseform").value
           IN  /\ shape = "bostadsratt" <=> form = "Bostadsratt"
               /\ shape = "fastighet" <=> form = "Frikopt"
<1>1. /\ "upplatelseform" \in Slot /\ Chain["upplatelseform"] = FormChain
      /\ "property_shape" \in Slot /\ Chain["property_shape"] = ShapeChain
  BY DEF Slot, Chain
<1>2. Fill(c, "upplatelseform").value =
         IF BulletSays(c, "prose Bostadsratt") THEN "Bostadsratt"
         ELSE IF BulletSays(c, "prose Frikopt") THEN "Frikopt"
         ELSE IF Matches(c, "uc_br") THEN "Bostadsratt"
         ELSE IF Matches(c, "uc_smahus") THEN "Frikopt"
         ELSE IF Matches(c, "fr") THEN "Frikopt"
         ELSE IF Matches(c, "lgh") THEN "Bostadsratt" ELSE None
  <2>1. Len(FormChain) = 6
    BY DEF FormChain, ProseForm
  <2>2. /\ FormChain[1] = Bullet("prose Bostadsratt", "Bostadsratt")
        /\ FormChain[2] = Bullet("prose Frikopt", "Frikopt")
        /\ FormChain[3] = Banner("uc_br", "Bostadsratt")
        /\ FormChain[4] = Banner("uc_smahus", "Frikopt")
        /\ FormChain[5] = Banner("fr", "Frikopt")
        /\ FormChain[6] = Banner("lgh", "Bostadsratt")
    BY DEF FormChain, ProseForm, Bullet, Banner
  <2>3. {"uc_br", "uc_smahus", "lgh", "fr"} \subseteq Guard
    BY DEF Guard
  <2>4. /\ Applies(c, FormChain[1]) <=> BulletSays(c, "prose Bostadsratt")
        /\ Applies(c, FormChain[2]) <=> BulletSays(c, "prose Frikopt")
    BY <2>2, BulletApplies
  <2>5. /\ Applies(c, FormChain[3]) <=> Matches(c, "uc_br")
        /\ Applies(c, FormChain[4]) <=> Matches(c, "uc_smahus")
        /\ Applies(c, FormChain[5]) <=> Matches(c, "fr")
        /\ Applies(c, FormChain[6]) <=> Matches(c, "lgh")
    BY <2>2, <2>3, BannerApplies
  <2>6. /\ Finds(FormChain[1], "Bostadsratt") /\ Finds(FormChain[2], "Frikopt")
    BY <2>2, BulletFinds
  <2>7. /\ Finds(FormChain[3], "Bostadsratt") /\ Finds(FormChain[4], "Frikopt")
        /\ Finds(FormChain[5], "Frikopt") /\ Finds(FormChain[6], "Bostadsratt")
    BY <2>2, BannerFinds
  <2> QED
    BY <1>1, <2>1, <2>4, <2>5, <2>6, <2>7, SixCases DEF Finds
<1>3. Fill(c, "property_shape").value =
         IF BulletSays(c, "prose Bostadsratt") THEN "bostadsratt"
         ELSE IF BulletSays(c, "prose Frikopt") THEN "fastighet"
         ELSE IF Matches(c, "uc_br") THEN "bostadsratt"
         ELSE IF Matches(c, "uc_smahus") THEN "fastighet"
         ELSE IF Matches(c, "lgh") THEN "bostadsratt"
         ELSE IF Matches(c, "fr") THEN "fastighet" ELSE None
  <2>1. Len(ShapeChain) = 6
    BY DEF ShapeChain, ProseForm
  <2>2. /\ ShapeChain[1] = Bullet("prose Bostadsratt", "bostadsratt")
        /\ ShapeChain[2] = Bullet("prose Frikopt", "fastighet")
        /\ ShapeChain[3] = Banner("uc_br", "bostadsratt")
        /\ ShapeChain[4] = Banner("uc_smahus", "fastighet")
        /\ ShapeChain[5] = Banner("lgh", "bostadsratt")
        /\ ShapeChain[6] = Banner("fr", "fastighet")
    BY DEF ShapeChain, ProseForm, Bullet, Banner
  <2>3. {"uc_br", "uc_smahus", "lgh", "fr"} \subseteq Guard
    BY DEF Guard
  <2>4. /\ Applies(c, ShapeChain[1]) <=> BulletSays(c, "prose Bostadsratt")
        /\ Applies(c, ShapeChain[2]) <=> BulletSays(c, "prose Frikopt")
    BY <2>2, BulletApplies
  <2>5. /\ Applies(c, ShapeChain[3]) <=> Matches(c, "uc_br")
        /\ Applies(c, ShapeChain[4]) <=> Matches(c, "uc_smahus")
        /\ Applies(c, ShapeChain[5]) <=> Matches(c, "lgh")
        /\ Applies(c, ShapeChain[6]) <=> Matches(c, "fr")
    BY <2>2, <2>3, BannerApplies
  <2>6. /\ Finds(ShapeChain[1], "bostadsratt") /\ Finds(ShapeChain[2], "fastighet")
    BY <2>2, BulletFinds
  <2>7. /\ Finds(ShapeChain[3], "bostadsratt") /\ Finds(ShapeChain[4], "fastighet")
        /\ Finds(ShapeChain[5], "bostadsratt") /\ Finds(ShapeChain[6], "fastighet")
    BY <2>2, BannerFinds
  <2> QED
    BY <1>1, <2>1, <2>4, <2>5, <2>6, <2>7, SixCases DEF Finds
<1>4. ~Matches(c, "lgh") \/ ~Matches(c, "fr")
  BY DEF GuardsMatched, Guard
<1>5. None \notin {"Bostadsratt", "Frikopt", "bostadsratt", "fastighet"}
  BY NoneAssumption
<1> QED
  BY <1>2, <1>3, <1>4, <1>5

-----------------------------------------------------------------------------
\* The inductive invariant.

\* What /decide says of a document.
Announced(d) == [ocr_required |-> d.fitz = {},
                 subkind |-> IF d.fitz = {} THEN NoTextSubkind(d.pages)
                             ELSE None]

\* What is diagnosed of the fields of a context.
Diagnosed(c, f) == [outcome |-> Outcome(c, Filled(f)),
                    matched |-> GuardsMatched(c),
                    missed |-> IF Filled(f) = {} THEN {}
                               ELSE CoreExpectedSlots \ Filled(f)]

DecisionSound == decision # None => decision = Announced(doc)

\* The context holds the text of the document until the OCR has put its own
\* there, and the OCR only ever runs on a document without text.
ContextSound ==
    /\ ctx.ocr_used => ~NativeText(doc)
    /\ ctx.subkind # None => /\ ~NativeText(doc)
                             /\ ctx.subkind = NoTextSubkind(doc.pages)
    /\ at \in {"classify", "ocr", "words"} => ~NativeText(doc)
    /\ at # "idle" /\ ~ctx.ocr_used => /\ ctx.page1 = doc.page1
                                       /\ ctx.fitz = doc.fitz

FieldsSound == at \in {"diagnose", "answered"} =>
                  fields = [s \in Slot |-> Result(ctx, s)]

DiagnosisSound == at = "answered" => diagnostics = Diagnosed(ctx, fields)

IInv == /\ TypeOK /\ doc \in Documents
        /\ DecisionSound /\ ContextSound /\ FieldsSound /\ DiagnosisSound

-----------------------------------------------------------------------------
\* Every step keeps it.

LEMMA SubkindTyped == \A pages : NoTextSubkind(pages) \in Subkind
  BY DEF NoTextSubkind, Subkind

\* What the assumption says of one document.
LEMMA Uploaded ==
    ASSUME NEW d \in Documents
    PROVE  /\ d \in Document /\ d.page1 \in Text /\ d.fitz \in Text
           /\ d.cells \in SUBSET CellLabel /\ d.scanCells \in SUBSET CellLabel
           /\ d.scans[1] \in Text
           /\ UNION {d.scans[i] : i \in DOMAIN d.scans} \in Text
<1>1. /\ d \in Document /\ Len(d.pages) > 0 /\ Len(d.scans) = Len(d.pages)
  BY DocumentsAssumption
<1>2. /\ d.page1 \in Text /\ d.fitz \in Text /\ d.cells \in SUBSET CellLabel
      /\ d.scanCells \in SUBSET CellLabel /\ d.scans \in Seq(Text)
      /\ d.pages \in Seq(Page)
  BY <1>1 DEF Document
<1>3. \A i \in DOMAIN d.scans : d.scans[i] \in Text
  BY <1>2
<1>4. 1 \in DOMAIN d.scans
  BY <1>1, <1>2
<1>5. UNION {d.scans[i] : i \in DOMAIN d.scans} \in Text
  BY <1>3 DEF Text
<1> QED
  BY <1>1, <1>2, <1>3, <1>4, <1>5

LEMMA OutcomeTyped ==
    ASSUME NEW c, NEW filled
    PROVE  /\ Outcome(c, filled) \in {"extracted", "partial",
                 "recognised_no_fields", "unrecognised", "no_text"}
           /\ Outcome(c, filled) = "no_text" <=>
                 /\ filled = {}
                 /\ \/ c.ocr_used = TRUE
                    \/ GuardsMatched(c) = {} /\ ~CarriesText(c)
  BY DEF Outcome

LEMMA Initially == Init => IInv
<1> SUFFICES ASSUME Init PROVE IInv
  OBVIOUS
<1>1. doc \in Document
  BY Uploaded DEF Init
<1>2. ctx \in Context
  BY DEF Init, Context, Text, Subkind
<1>3. /\ fields \in [Slot -> Field]
      /\ \A s \in Slot : fields[s].value = None <=>
                         fields[s].confidence = "not_found"
  <2>1. NotFound \in Field /\ NotFound.value = None
        /\ NotFound.confidence = "not_found"
    BY DEF NotFound, Field
  <2>2. fields = [s \in Slot |-> NotFound]
    BY DEF Init
  <2> QED
    BY <2>1, <2>2
<1>4. TypeOK
  BY <1>1, <1>2, <1>3 DEF Init, TypeOK
<1>5. ContextSound
  BY DEF Init, ContextSound
<1> QED
  BY <1>4, <1>5 DEF Init, IInv, DecisionSound, FieldsSound, DiagnosisSound

LEMMA DecideKeeps == IInv /\ Decide => IInv'
<1> SUFFICES ASSUME IInv, Decide PROVE IInv'
  OBVIOUS
<1>1. decision' = Announced(doc) /\ at = "idle"
      /\ UNCHANGED <<doc, at, ctx, fields, diagnostics>>
  BY DEF Decide, Announced
<1>2. Announced(doc) \in [ocr_required : BOOLEAN, subkind : Subkind \cup {None}]
  BY SubkindTyped DEF Announced
<1>3. TypeOK'
  BY <1>1, <1>2 DEF IInv, TypeOK
<1>4. DecisionSound'
  BY <1>1 DEF DecisionSound
<1>5. ContextSound'
  BY <1>1 DEF IInv, ContextSound
<1> QED
  BY <1>1, <1>3, <1>4, <1>5 DEF IInv, FieldsSound, DiagnosisSound

LEMMA ReadNativeKeeps == IInv /\ ReadNative => IInv'
<1> SUFFICES ASSUME IInv, ReadNative PROVE IInv'
  OBVIOUS
<1>1. /\ ctx' = [page1 |-> doc.page1, fitz |-> doc.fitz, cells |-> doc.cells,
                 ocr_used |-> FALSE, subkind |-> None]
      /\ at' \in {"fill", "classify"} /\ (at' = "classify" => ~NativeText(doc))
      /\ UNCHANGED <<doc, decision, fields, diagnostics>>
  BY DEF ReadNative
<1>2. ctx' \in Context
  BY <1>1, Uploaded DEF IInv, Context
<1>3. TypeOK'
  BY <1>1, <1>2 DEF IInv, TypeOK
<1>4. ContextSound'
  BY <1>1 DEF ContextSound
<1> QED
  BY <1>1, <1>3, <1>4
  DEF IInv, DecisionSound, FieldsSound, DiagnosisSound

LEMMA ClassifyKeeps == IInv /\ Classify => IInv'
<1> SUFFICES ASSUME IInv, Classify PROVE IInv'
  OBVIOUS
<1>1. PICK subkind \in {NoTextSubkind(doc.pages), None} :
         ctx' = [ctx EXCEPT !.subkind = subkind]
  BY DEF Classify
<1>2. /\ at = "classify" /\ at' = "ocr"
      /\ UNCHANGED <<doc, decision, fields, diagnostics>>
  BY DEF Classify
<1>3. /\ ctx \in Context /\ ~NativeText(doc)
      /\ ~ctx.ocr_used => ctx.page1 = doc.page1 /\ ctx.fitz = doc.fitz
  BY <1>2 DEF IInv, TypeOK, ContextSound
<1>4. /\ ctx' \in Context /\ ctx'.subkind = subkind
      /\ ctx'.page1 = ctx.page1 /\ ctx'.fitz = ctx.fitz
      /\ ctx'.ocr_used = ctx.ocr_used
  BY <1>1, <1>3, SubkindTyped DEF Context
<1>5. TypeOK'
  BY <1>2, <1>4 DEF IInv, TypeOK
<1>6. ContextSound'
  BY <1>2, <1>3, <1>4 DEF ContextSound
<1> QED
  BY <1>2, <1>5, <1>6 DEF IInv, DecisionSound, FieldsSound, DiagnosisSound

LEMMA OcrPagesKeeps == IInv /\ OcrPages => IInv'
<1> SUFFICES ASSUME IInv, OcrPages PROVE IInv'
  OBVIOUS
<1> DEFINE whole == UNION {doc.scans[i] : i \in DOMAIN doc.scans}
<1>1. /\ at = "ocr" /\ at' = "words"
      /\ ctx' = [ctx EXCEPT !.page1 = doc.scans[1], !.fitz = whole,
                            !.ocr_used = TRUE]
      /\ UNCHANGED <<doc, decision, fields, diagnostics>>
  BY DEF OcrPages
<1>2. doc.scans[1] \in Text /\ whole \in Text
  BY Uploaded DEF IInv
<1> HIDE DEF whole
<1>3. /\ ctx \in Context /\ ~NativeText(doc)
      /\ ctx.subkind # None => ctx.subkind = NoTextSubkind(doc.pages)
  BY <1>1 DEF IInv, TypeOK, ContextSound
<1>4. ctx' \in Context /\ ctx'.subkind = ctx.subkind /\ ctx'.ocr_used
  BY <1>1, <1>2, <1>3 DEF Context
<1>5. TypeOK'
  BY <1>1, <1>4 DEF IInv, TypeOK
<1>6. ContextSound'
  BY <1>1, <1>3, <1>4 DEF ContextSound, NativeText
<1> QED
  BY <1>1, <1>5, <1>6 DEF IInv, DecisionSound, FieldsSound, DiagnosisSound

LEMMA OcrWordsKeeps == IInv /\ OcrWords => IInv'
<1> SUFFICES ASSUME IInv, OcrWords PROVE IInv'
  OBVIOUS
<1>1. /\ at = "words" /\ at' = "fill"
      /\ ctx' = [ctx EXCEPT !.cells = IF doc.scanCells = {} THEN @
                                      ELSE doc.scanCells]
      /\ UNCHANGED <<doc, decision, fields, diagnostics>>
  BY DEF OcrWords
<1>2. doc.scanCells \in SUBSET CellLabel
  BY Uploaded DEF IInv
<1>3. ctx \in Context
  BY DEF IInv, TypeOK
<1>4. /\ ctx' \in Context /\ ctx'.subkind = ctx.subkind
      /\ ctx'.page1 = ctx.page1 /\ ctx'.fitz = ctx.fitz
      /\ ctx'.ocr_used = ctx.ocr_used
  BY <1>1, <1>2, <1>3 DEF Context
<1>5. TypeOK'
  BY <1>1, <1>4 DEF IInv, TypeOK
<1>6. ContextSound'
  BY <1>1, <1>4 DEF IInv, ContextSound, NativeText
<1> QED
  BY <1>1, <1>5, <1>6 DEF IInv, DecisionSound, FieldsSound, DiagnosisSound

LEMMA OcrFaultKeeps == IInv /\ OcrFault => IInv'
<1> SUFFICES ASSUME IInv, OcrFault PROVE IInv'
  OBVIOUS
<1>1. /\ at \in {"ocr", "words"} /\ at' = "fill"
      /\ UNCHANGED <<doc, decision, ctx, fields, diagnostics>>
  BY DEF OcrFault
<1>2. TypeOK'
  BY <1>1 DEF IInv, TypeOK
<1>3. ContextSound'
  BY <1>1 DEF IInv, ContextSound, NativeText
<1> QED
  BY <1>1, <1>2, <1>3 DEF IInv, DecisionSound, FieldsSound, DiagnosisSound

LEMMA FillSlotsKeeps == IInv /\ FillSlots => IInv'
<1> SUFFICES ASSUME IInv, FillSlots PROVE IInv'
  OBVIOUS
<1>1. /\ at = "fill" /\ at' = "diagnose"
      /\ fields' = [s \in Slot |-> Result(ctx, s)]
      /\ UNCHANGED <<doc, decision, ctx, diagnostics>>
  BY DEF FillSlots, Result
<1>2. /\ fields' \in [Slot -> Field]
      /\ \A s \in Slot : fields'[s].value = None <=>
                         fields'[s].confidence = "not_found"
  BY <1>1, ResultIs
<1>3. TypeOK'
  BY <1>1, <1>2 DEF IInv, TypeOK
<1>4. ContextSound'
  BY <1>1 DEF IInv, ContextSound, NativeText
<1>5. FieldsSound'
  BY <1>1 DEF FieldsSound
<1> QED
  BY <1>1, <1>3, <1>4, <1>5 DEF IInv, DecisionSound, DiagnosisSound

LEMMA BuildDiagnosticsKeeps == IInv /\ BuildDiagnostics => IInv'
<1> SUFFICES ASSUME IInv, BuildDiagnostics PROVE IInv'
  OBVIOUS
<1>1. /\ at = "diagnose" /\ at' = "answered"
      /\ diagnostics' = Diagnosed(ctx, fields)
      /\ UNCHANGED <<doc, decision, ctx, fields>>
  BY DEF BuildDiagnostics, Diagnosed
<1>2. Diagnosed(ctx, fields) \in
         [outcome : {"extracted", "partial", "recognised_no_fields",
                     "unrecognised", "no_text"},
          matched : SUBSET Guard, missed : SUBSET CoreExpectedSlots]
  <2>1. GuardsMatched(ctx) \in SUBSET Guard
    BY DEF GuardsMatched
  <2> QED
    BY <2>1, OutcomeTyped DEF Diagnosed
<1>3. TypeOK'
  BY <1>1, <1>2 DEF IInv, TypeOK
<1>4. ContextSound'
  BY <1>1 DEF IInv, ContextSound, NativeText
<1>5. FieldsSound'
  BY <1>1 DEF IInv, FieldsSound
<1>6. DiagnosisSound'
  BY <1>1 DEF DiagnosisSound
<1> QED
  BY <1>1, <1>3, <1>4, <1>5, <1>6 DEF IInv, DecisionSound

LEMMA Inductive == IInv /\ [Next]_vars => IInv'
<1> SUFFICES ASSUME IInv, [Next]_vars PROVE IInv'
  OBVIOUS
<1>1. CASE UNCHANGED vars
  BY <1>1 DEF vars, IInv, TypeOK, DecisionSound, ContextSound, FieldsSound,
     DiagnosisSound
<1>2. CASE Next
  BY <1>2, DecideKeeps, ReadNativeKeeps, ClassifyKeeps, OcrPagesKeeps,
     OcrWordsKeeps, OcrFaultKeeps, FillSlotsKeeps, BuildDiagnosticsKeeps
  DEF Next
<1> QED
  BY <1>1, <1>2

LEMMA Invariance == Spec => []IInv
  BY Initially, Inductive, PTL DEF Spec

-----------------------------------------------------------------------------
\* What the answer says.

\* The result has every slot, found or not, and a slot has a value exactly if
\* it was found, through the OCR marking as well (ExtractedField).
THEOREM TypeCorrect == Spec => []TypeOK
<1>1. IInv => TypeOK
  BY DEF IInv
<1> QED
  BY <1>1, Invariance, PTL

\* When the answer is there, its parts are those of the context.
LEMMA Answer ==
    ASSUME IInv, at = "answered"
    PROVE  /\ \A s \in Slot : fields[s] = Result(ctx, s)
           /\ diagnostics.outcome = Outcome(ctx, Filled(fields))
           /\ diagnostics.matched = GuardsMatched(ctx)
           /\ ctx.ocr_used \in BOOLEAN /\ (ctx.ocr_used => ~NativeText(doc))
           /\ ~ctx.ocr_used => ctx.page1 = doc.page1 /\ ctx.fitz = doc.fitz
<1>1. fields = [s \in Slot |-> Result(ctx, s)]
  BY DEF IInv, FieldsSound
<1>2. diagnostics = Diagnosed(ctx, fields)
  BY DEF IInv, DiagnosisSound
<1>3. /\ diagnostics.outcome = Outcome(ctx, Filled(fields))
      /\ diagnostics.matched = GuardsMatched(ctx)
  BY <1>2 DEF Diagnosed
<1>4. ctx.ocr_used \in BOOLEAN
  BY DEF IInv, TypeOK, Context
<1> QED
  BY <1>1, <1>3, <1>4 DEF IInv, ContextSound

\* Without text and without OCR nothing is filled.
LEMMA NothingFromNothing ==
    ASSUME IInv, at = "answered", ~NativeText(doc), ~ctx.ocr_used
    PROVE  GuardsMatched(ctx) = {} /\ Filled(fields) = {}
<1>1. ctx.page1 = {} /\ ctx.fitz = {} /\ ctx.ocr_used = FALSE
  BY Answer DEF NativeText
<1>2. /\ GuardsMatched(ctx) = {}
      /\ \A s \in Slot : Fill(ctx, s) = NotFound
  BY <1>1, EmptyContext
<1>3. \A s \in ValueSlot : fields[s].confidence = "not_found"
  BY <1>2, Answer, ResultIs DEF ValueSlot
<1> QED
  BY <1>2, <1>3 DEF Filled

\* A value read off a raster never reaches the operator as confident, and one
\* read off a text layer is not doubted (_mark_ocr_confidence).
THEOREM ConfidenceTheorem == Spec => []OcrNeverConfident
<1>1. ASSUME IInv PROVE OcrNeverConfident
  <2> SUFFICES ASSUME at = "answered", NEW s \in Filled(fields)
               PROVE  fields[s].confidence =
                         IF doc.page1 = {} /\ doc.fitz = {}
                         THEN "uncertain" ELSE "confident"
    BY DEF OcrNeverConfident
  <2>1. s \in ValueSlot /\ s \in Slot /\ fields[s].confidence # "not_found"
    BY DEF Filled, ValueSlot
  <2>2. fields[s].confidence = IF ctx.ocr_used THEN "uncertain" ELSE "confident"
    BY <1>1, <2>1, Answer, ResultIs
  <2>3. ~NativeText(doc) <=> ctx.ocr_used
    BY <1>1, Answer, NothingFromNothing
  <2> QED
    BY <2>2, <2>3 DEF NativeText
<1> QED
  BY <1>1, Invariance, PTL

\* upplatelseform and property_shape say the same of the property, unless a
\* PDF shows a Fastighetsrapport and a lagenhetsforteckning at once, which
\* the two chains rank differently.
THEOREM ShapeTheorem == Spec => []ShapeAgrees
<1>1. ASSUME IInv PROVE ShapeAgrees
  <2> SUFFICES ASSUME at = "answered",
                      ~({"lgh", "fr"} \subseteq diagnostics.matched)
               PROVE  LET shape == fields["property_shape"].value
                          form == fields["upplatelseform"].value
                      IN  /\ shape = "bostadsratt" <=> form = "Bostadsratt"
                          /\ shape = "fastighet" <=> form = "Frikopt"
    BY DEF ShapeAgrees
  <2>1. "property_shape" \in Slot /\ "upplatelseform" \in Slot
    BY DEF Slot, Chain
  <2>2. /\ fields["property_shape"].value = Fill(ctx, "property_shape").value
        /\ fields["upplatelseform"].value = Fill(ctx, "upplatelseform").value
    BY <1>1, <2>1, Answer, ResultIs
  <2>3. ~({"lgh", "fr"} \subseteq GuardsMatched(ctx))
    BY <1>1, Answer
  <2> QED
    BY <2>2, <2>3, ShapeFollowsForm
<1> QED
  BY <1>1, Invariance, PTL

\* What /decide said holds of the extraction that follows: OCR only where it
\* was announced, and the same kind of document if any is named.
THEOREM DecideTheorem == Spec => []DecideForetells
<1>1. ASSUME IInv PROVE DecideForetells
  <2> SUFFICES ASSUME decision # None
               PROVE  /\ ctx.ocr_used => decision.ocr_required
                      /\ ctx.subkind # None => ctx.subkind = decision.subkind
    BY DEF DecideForetells
  <2>1. decision = Announced(doc)
    BY <1>1 DEF IInv, DecisionSound
  <2>2. ctx.ocr_used \/ ctx.subkind # None => doc.fitz = {}
    BY <1>1 DEF IInv, ContextSound, NativeText
  <2>3. ctx.subkind # None => ctx.subkind = NoTextSubkind(doc.pages)
    BY <1>1 DEF IInv, ContextSound
  <2> QED
    BY <2>1, <2>2, <2>3 DEF Announced
<1> QED
  BY <1>1, Invariance, PTL

\* no_text is said of the documents without native text that yielded
\* nothing, OCR or not, and of no others (ExtractionDiagnostics).
THEOREM NoTextTheorem == Spec => []NoTextHonest
<1>1. ASSUME IInv PROVE NoTextHonest
  <2> SUFFICES ASSUME at = "answered"
               PROVE  diagnostics.outcome = "no_text" <=>
                         ~NativeText(doc) /\ Filled(fields) = {}
    BY DEF NoTextHonest, NativeText
  <2>1. diagnostics.outcome = "no_text" <=>
           /\ Filled(fields) = {}
           /\ \/ ctx.ocr_used = TRUE
              \/ GuardsMatched(ctx) = {} /\ ~CarriesText(ctx)
    BY <1>1, Answer, OutcomeTyped
  <2>2. CASE ctx.ocr_used
    BY <1>1, <2>1, <2>2, Answer
  <2>3. CASE ~ctx.ocr_used
    <3>1. CarriesText(ctx) <=> NativeText(doc)
      BY <1>1, <2>3, Answer DEF CarriesText, NativeText
    <3>2. ~NativeText(doc) => GuardsMatched(ctx) = {} /\ Filled(fields) = {}
      BY <1>1, <2>3, NothingFromNothing
    <3> QED
      BY <1>1, <2>1, <2>3, <3>1, <3>2, Answer
  <2> QED
    BY <2>2, <2>3
<1> QED
  BY <1>1, Invariance, PTL
=============================================================================
