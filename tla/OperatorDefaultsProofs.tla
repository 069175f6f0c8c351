----------------------- MODULE OperatorDefaultsProofs -----------------------
(***************************************************************************)
(* A user is only ever answered an identity of their own, and a file that  *)
(* no two writers and no crash have met on is readable, for any users,     *)
(* identities and lengths of their texts, any number of requests at the    *)
(* same time and any number of restarts.  The induction needs that what a  *)
(* request carries, a valuation is signed with and a file holds are its    *)
(* user's own, and that a lone writer writes on an empty file.             *)
(***************************************************************************)
EXTENDS OperatorDefaults, TLAPS

\* The file is there, and its text its user's own if it can be read.
TextSound(u) == file[u] \in Text /\ file[u].text \in own[u] \cup {Garbled}

\* A request works for one user, with an identity of theirs, on a file that is
\* there when it reads it or has opened it.
RequestSound(c) ==
    /\ request[c].at # "idle" => request[c].user \in User
    /\ request[c].at \in {"read", "write"} => TextSound(request[c].user)
    /\ request[c].at \in {"truncate", "write"} =>
          request[c].value \in own[request[c].user]

SignatureSound(i) ==
    valuations[i].signed \in Identity =>
        valuations[i].signed \in own[valuations[i].owner]

FileSound(u) == file[u] # None => TextSound(u)

\* At most one request is between opening and writing the file, which is empty
\* meanwhile, and readable afterwards.
LoneSound(u) ==
    /\ \A c, d \in Writers(u) : c = d
    /\ Writers(u) # {} => file[u].size = 0
    /\ Writers(u) = {} => file[u] = None \/ file[u].text \in own[u]

AnswerSound ==
    answer.value # None => answer.user \in User /\ answer.value \in own[answer.user]

IInv ==
    /\ TypeOK /\ AnswerSound
    /\ \A c \in Client : RequestSound(c)
    /\ \A i \in DOMAIN valuations : SignatureSound(i)
    /\ \A u \in User : FileSound(u) /\ (u \notin torn => LoneSound(u))

-----------------------------------------------------------------------------

LEMMA Shape ==
    ASSUME IInv, NEW c \in Client
    PROVE  request[c] \in Request /\ RequestSound(c)
  BY DEF IInv, TypeOK

LEMMA FileShape ==
    ASSUME IInv, NEW u \in User
    PROVE  /\ file[u] \in Text \cup {None}
           /\ own[u] \in SUBSET Identity
           /\ FileSound(u)
           /\ u \notin torn => LoneSound(u)
  BY DEF IInv, TypeOK

Valuation == [owner : User, signed : Identity \cup {None, Blank}, live : BOOLEAN]

LEMMA ValuationShape ==
    ASSUME IInv, NEW i \in DOMAIN valuations
    PROVE  valuations[i] \in Valuation /\ SignatureSound(i)
<1>1. valuations \in Seq(Valuation)
  BY DEF IInv, TypeOK, Valuation
<1>2. valuations[i] \in Valuation
  BY <1>1
<1> QED
  BY <1>2 DEF IInv

LEMMA RequestEffect ==
    ASSUME TypeOK, NEW c \in Client, NEW r \in Request,
           request' = [request EXCEPT ![c] = r]
    PROVE  /\ request' \in [Client -> Request] /\ request'[c] = r
           /\ \A d \in Client \ {c} : request'[d] = request[d]
  BY DEF TypeOK

\* Steps that touch no file and no valuation: what they may do is give one
\* request another thing to do, a user more identities, or an answer.
LEMMA RequestStepKeeps ==
    ASSUME IInv, NEW c \in Client,
           request' \in [Client -> Request],
           \A d \in Client \ {c} : request'[d] = request[d],
           own' \in [User -> SUBSET Identity], \A u \in User : own[u] \subseteq own'[u],
           answer' \in [user : User \cup {None}, value : Identity \cup {None}],
           UNCHANGED <<file, valuations, saved, torn, restarts>>,
           request[c].at # "write", request'[c].at # "write",
           RequestSound(c)', AnswerSound'
    PROVE  IInv'
<1>1. TypeOK'
  BY DEF IInv, TypeOK
<1>2. ASSUME NEW d \in Client PROVE RequestSound(d)'
  <2>1. CASE d # c
    <3>1. request'[d] = request[d] /\ RequestSound(d)
      BY <2>1, Shape
    <3> QED
      BY <3>1 DEF RequestSound, TextSound
  <2> QED
    BY <2>1
<1>3. ASSUME NEW i \in DOMAIN valuations' PROVE SignatureSound(i)'
  BY ValuationShape DEF SignatureSound, Valuation
<1>4. ASSUME NEW u \in User
      PROVE  FileSound(u)' /\ (u \notin torn' => LoneSound(u)')
  <2>1. Writers(u)' = Writers(u)
    BY DEF Writers
  <2> QED
    BY <2>1, FileShape DEF FileSound, TextSound, LoneSound
<1> QED
  BY <1>1, <1>2, <1>3, <1>4 DEF IInv

\* Answering ends the request.
LEMMA AnswerKeeps ==
    ASSUME IInv, NEW c \in Client, NEW v \in Identity \cup {None}, Answer(c, v),
           request[c].at \notin {"idle", "write"},
           v # None => v \in own[request[c].user],
           UNCHANGED <<file, valuations, own, saved, torn, restarts>>
    PROVE  IInv'
<1>1. request[c] \in Request /\ request[c].user \in User
  BY Shape DEF RequestSound
<1>2. Idle \in Request /\ Idle.at = "idle"
  BY DEF Idle, Request
<1>3. /\ request' \in [Client -> Request] /\ request'[c] = Idle
      /\ \A d \in Client \ {c} : request'[d] = request[d]
  BY <1>2, RequestEffect DEF IInv, Answer
<1>4. /\ answer' \in [user : User \cup {None}, value : Identity \cup {None}]
      /\ AnswerSound'
  BY <1>1 DEF Answer, AnswerSound
<1>5. RequestSound(c)'
  BY <1>2, <1>3 DEF RequestSound
<1>6. own' \in [User -> SUBSET Identity] /\ \A u \in User : own[u] \subseteq own'[u]
  BY DEF IInv, TypeOK
<1> QED
  BY <1>2, <1>3, <1>4, <1>5, <1>6, RequestStepKeeps

-----------------------------------------------------------------------------
\* The valuations.

LEMMA CreateValuationKeeps ==
    ASSUME IInv, NEW u \in User, NEW signed \in Identity \cup {None, Blank},
           CreateValuation(u, signed)
    PROVE  IInv'
<1> DEFINE v == [owner |-> u, signed |-> signed, live |-> TRUE]
<1>1. /\ own' \in [User -> SUBSET Identity]
      /\ own'[u] = own[u] \cup ({signed} \cap Identity)
      /\ \A w \in User : own[w] \subseteq own'[w]
  BY DEF IInv, TypeOK, CreateValuation
<1>2. /\ valuations' \in Seq([owner : User, signed : Identity \cup {None, Blank},
                              live : BOOLEAN])
      /\ \A i \in DOMAIN valuations' :
            \/ i \in DOMAIN valuations /\ valuations'[i] = valuations[i]
            \/ valuations'[i] = v
  BY DEF IInv, TypeOK, CreateValuation
<1>3. TypeOK'
  BY <1>1, <1>2 DEF IInv, TypeOK, CreateValuation
<1>4. ASSUME NEW i \in DOMAIN valuations' PROVE SignatureSound(i)'
  <2>1. CASE i \in DOMAIN valuations /\ valuations'[i] = valuations[i]
    <3>1. valuations[i].owner \in User /\ SignatureSound(i)
      BY <2>1, ValuationShape DEF Valuation
    <3> QED
      BY <1>1, <2>1, <3>1 DEF SignatureSound
  <2>2. CASE valuations'[i] = v
    BY <1>1, <2>2 DEF SignatureSound
  <2> QED
    BY <1>2, <2>1, <2>2
<1>5. ASSUME NEW c \in Client PROVE RequestSound(c)'
  BY <1>1, Shape DEF RequestSound, TextSound, CreateValuation
<1>6. ASSUME NEW w \in User
      PROVE  FileSound(w)' /\ (w \notin torn' => LoneSound(w)')
  <2>1. Writers(w)' = Writers(w)
    BY DEF Writers, CreateValuation
  <2> QED
    BY <1>1, <2>1, FileShape DEF FileSound, TextSound, LoneSound, CreateValuation
<1>7. AnswerSound'
  BY <1>1 DEF IInv, AnswerSound, CreateValuation
<1> QED
  BY <1>3, <1>4, <1>5, <1>6, <1>7 DEF IInv

LEMMA DeleteValuationKeeps ==
    ASSUME IInv, NEW i \in DOMAIN valuations, DeleteValuation(i)
    PROVE  IInv'
<1> DEFINE v == [valuations[i] EXCEPT !.live = FALSE]
<1>1. /\ v \in Valuation
      /\ v.owner = valuations[i].owner /\ v.signed = valuations[i].signed
  BY ValuationShape DEF Valuation
<1>2. valuations' = [valuations EXCEPT ![i] = v]
  BY DEF DeleteValuation
<1> HIDE DEF v
<1>3. /\ valuations' \in Seq(Valuation)
      /\ DOMAIN valuations' = DOMAIN valuations
      /\ \A j \in DOMAIN valuations : /\ valuations'[j].owner = valuations[j].owner
                                      /\ valuations'[j].signed = valuations[j].signed
  BY <1>1, <1>2 DEF IInv, TypeOK, Valuation
<1>4. TypeOK'
  BY <1>3 DEF IInv, TypeOK, DeleteValuation, Valuation
<1>5. ASSUME NEW j \in DOMAIN valuations' PROVE SignatureSound(j)'
  BY <1>3 DEF IInv, SignatureSound, DeleteValuation
<1>6. ASSUME NEW c \in Client PROVE RequestSound(c)'
  BY Shape DEF RequestSound, TextSound, DeleteValuation
<1>7. ASSUME NEW w \in User
      PROVE  FileSound(w)' /\ (w \notin torn' => LoneSound(w)')
  <2>1. Writers(w)' = Writers(w)
    BY DEF Writers, DeleteValuation
  <2> QED
    BY <2>1, FileShape DEF FileSound, TextSound, LoneSound, DeleteValuation
<1>8. AnswerSound'
  BY DEF IInv, AnswerSound, DeleteValuation
<1> QED
  BY <1>4, <1>5, <1>6, <1>7, <1>8 DEF IInv

\* A seed is an identity the user has signed with.
LEMMA SeedIsOwn ==
    ASSUME IInv, NEW u \in User, NEW seed \in Seed(u)
    PROVE  seed \in Identity /\ seed \in own[u]
<1>1. PICK i \in SignedBy(u) : seed = valuations[i].signed /\ seed # Blank
  BY DEF Seed
<1>2. /\ i \in DOMAIN valuations /\ valuations[i].owner = u
      /\ valuations[i].signed # None
      /\ valuations[i].signed \in Identity \cup {None, Blank}
  BY <1>1, ValuationShape DEF SignedBy, Valuation
<1> QED
  BY <1>1, <1>2, ValuationShape DEF SignatureSound

-----------------------------------------------------------------------------
\* Loading.

LEMMA BeginLoadKeeps ==
    ASSUME IInv, NEW c \in Client, NEW u \in User, BeginLoad(c, u)
    PROVE  IInv'
<1> DEFINE r == [at |-> IF file[u] = None THEN "seed" ELSE "read",
                 put |-> FALSE, user |-> u, value |-> None]
<1>1. r \in Request /\ r.at \in {"seed", "read"}
  BY DEF Request
<1>2. /\ request' \in [Client -> Request] /\ request'[c] = r
      /\ \A d \in Client \ {c} : request'[d] = request[d]
  BY <1>1, RequestEffect DEF IInv, BeginLoad
<1>3. RequestSound(c)'
  BY <1>1, <1>2, FileShape DEF RequestSound, FileSound, TextSound, BeginLoad
<1>4. /\ own' \in [User -> SUBSET Identity] /\ \A w \in User : own[w] \subseteq own'[w]
      /\ answer' \in [user : User \cup {None}, value : Identity \cup {None}]
      /\ AnswerSound'
  BY DEF IInv, TypeOK, AnswerSound, BeginLoad
<1> HIDE DEF r
<1> QED
  BY <1>1, <1>2, <1>3, <1>4, RequestStepKeeps DEF BeginLoad

LEMMA ReadFileKeeps ==
    ASSUME IInv, NEW c \in Client, ReadFile(c)
    PROVE  IInv'
<1> DEFINE text == file[request[c].user].text
<1>1. request[c].at = "read" /\ TextSound(request[c].user)
  BY Shape DEF ReadFile, RequestSound
<1>2. request[c].user \in User
  BY <1>1, Shape DEF RequestSound
<1>3. /\ text \in Identity \cup {Garbled}
      /\ text # Garbled => text \in own[request[c].user]
  BY <1>1, <1>2, FileShape DEF TextSound
<1> QED
  BY <1>1, <1>3, AnswerKeeps DEF ReadFile

LEMMA FindSeedKeeps ==
    ASSUME IInv, NEW c \in Client, FindSeed(c)
    PROVE  IInv'
<1>1. request[c] \in Request /\ request[c].user \in User /\ request[c].at = "seed"
  BY Shape DEF FindSeed, RequestSound
<1>2. PICK seed \in Seed(request[c].user) :
         request' = [request EXCEPT ![c].at = "truncate", ![c].value = seed]
  BY DEF FindSeed
<1>3. seed \in Identity /\ seed \in own[request[c].user]
  BY <1>1, SeedIsOwn
<1> DEFINE r == [request[c] EXCEPT !.at = "truncate", !.value = seed]
<1>4. /\ r \in Request /\ r.at = "truncate" /\ r.value = seed
      /\ r.user = request[c].user
  BY <1>1, <1>3 DEF Request
<1>5. request' = [request EXCEPT ![c] = r]
  BY <1>2 DEF IInv, TypeOK
<1> HIDE DEF r
<1>6. /\ request' \in [Client -> Request] /\ request'[c] = r
      /\ \A d \in Client \ {c} : request'[d] = request[d]
  BY <1>4, <1>5, RequestEffect DEF IInv
<1>7. RequestSound(c)'
  BY <1>1, <1>3, <1>4, <1>6 DEF RequestSound, FindSeed
<1>8. /\ own' \in [User -> SUBSET Identity] /\ \A w \in User : own[w] \subseteq own'[w]
      /\ answer' \in [user : User \cup {None}, value : Identity \cup {None}]
      /\ AnswerSound'
  BY DEF IInv, TypeOK, AnswerSound, FindSeed
<1> QED
  BY <1>1, <1>4, <1>6, <1>7, <1>8, RequestStepKeeps DEF FindSeed

LEMMA NoSeedKeeps ==
    ASSUME IInv, NEW c \in Client, NoSeed(c)
    PROVE  IInv'
  BY AnswerKeeps DEF NoSeed

-----------------------------------------------------------------------------
\* Saving and writing.

LEMMA BeginSaveKeeps ==
    ASSUME IInv, NEW c \in Client, NEW u \in User, NEW v \in Identity,
           BeginSave(c, u, v)
    PROVE  IInv'
<1> DEFINE r == [at |-> "truncate", put |-> TRUE, user |-> u, value |-> v]
<1>1. r \in Request
  BY DEF Request
<1>2. /\ request' \in [Client -> Request] /\ request'[c] = r
      /\ \A d \in Client \ {c} : request'[d] = request[d]
  BY <1>1, RequestEffect DEF IInv, BeginSave
<1>3. /\ own' \in [User -> SUBSET Identity] /\ v \in own'[u]
      /\ \A w \in User : own[w] \subseteq own'[w]
  BY DEF IInv, TypeOK, BeginSave
<1>4. RequestSound(c)'
  BY <1>2, <1>3 DEF RequestSound
<1>5. /\ answer' \in [user : User \cup {None}, value : Identity \cup {None}]
      /\ AnswerSound'
  BY <1>3 DEF IInv, TypeOK, AnswerSound, BeginSave
<1> QED
  BY <1>2, <1>3, <1>4, <1>5, RequestStepKeeps DEF BeginSave

LEMMA TruncateKeeps ==
    ASSUME IInv, NEW c \in Client, Truncate(c)
    PROVE  IInv'
<1> DEFINE u == request[c].user
           r == [request[c] EXCEPT !.at = "write"]
<1>1. /\ request[c] \in Request /\ request[c].at = "truncate"
      /\ u \in User /\ request[c].value \in own[u]
  BY Shape DEF Truncate, RequestSound
<1>2. r \in Request /\ r.at = "write" /\ r.user = u /\ r.value = request[c].value
  BY <1>1 DEF Request
<1>3. request' = [request EXCEPT ![c] = r]
  BY DEF Truncate
<1> HIDE DEF r
<1>4. /\ request' \in [Client -> Request] /\ request'[c] = r
      /\ \A d \in Client \ {c} : request'[d] = request[d]
  BY <1>2, <1>3, RequestEffect DEF IInv
<1>5. /\ file' \in [User -> Text \cup {None}]
      /\ file'[u] \in Text /\ file'[u].text = Garbled /\ file'[u].size = 0
      /\ \A w \in User \ {u} : file'[w] = file[w]
  BY <1>1 DEF IInv, TypeOK, Truncate, Text
<1>6. torn' \in SUBSET User /\ torn \subseteq torn' /\ (Writers(u) # {} => u \in torn')
  BY <1>1 DEF IInv, TypeOK, Truncate
<1>7. TypeOK'
  BY <1>4, <1>5, <1>6 DEF IInv, TypeOK, Truncate
<1>8. AnswerSound'
  BY DEF IInv, AnswerSound, Truncate
<1>9. ASSUME NEW d \in Client PROVE RequestSound(d)'
  <2>1. CASE d = c
    BY <1>1, <1>2, <1>4, <1>5, <2>1 DEF RequestSound, TextSound, Truncate
  <2>2. CASE d # c
    <3>1. request'[d] = request[d] /\ RequestSound(d)
      BY <1>4, <2>2, Shape
    <3> QED
      BY <1>5, <3>1 DEF RequestSound, TextSound, Truncate
  <2> QED
    BY <2>1, <2>2
<1>10. ASSUME NEW i \in DOMAIN valuations' PROVE SignatureSound(i)'
  BY DEF IInv, SignatureSound, Truncate
<1>11. ASSUME NEW w \in User
       PROVE  FileSound(w)' /\ (w \notin torn' => LoneSound(w)')
  <2>1. CASE w = u
    <3>1. Writers(w)' = Writers(w) \cup {c}
      BY <1>1, <1>2, <1>4, <2>1 DEF Writers
    <3>2. FileSound(w)'
      BY <1>5, <2>1 DEF FileSound, TextSound
    <3>3. w \notin torn' => LoneSound(w)'
      BY <1>5, <1>6, <2>1, <3>1 DEF LoneSound
    <3> QED
      BY <3>2, <3>3
  <2>2. CASE w # u
    <3>1. Writers(w)' = Writers(w)
      BY <1>1, <1>2, <1>4, <2>2 DEF Writers
    <3>2. file'[w] = file[w] /\ own' = own /\ (w \notin torn' => w \notin torn)
      BY <1>5, <1>6, <2>2 DEF Truncate
    <3> QED
      BY <3>1, <3>2, FileShape DEF FileSound, TextSound, LoneSound
  <2> QED
    BY <2>1, <2>2
<1> QED
  BY <1>7, <1>8, <1>9, <1>10, <1>11 DEF IInv

\* What a write leaves in the file: its own text if the file held no more.
LEMMA OverlaidIs ==
    ASSUME NEW v \in Identity, NEW old \in Text
    PROVE  /\ Overlaid(v, old) \in Text
           /\ Overlaid(v, old).text \in {v, Garbled}
           /\ old.size = 0 => Overlaid(v, old).text = v
  BY SizeAssumption DEF Overlaid, Text

LEMMA WriteTextKeeps ==
    ASSUME IInv, NEW c \in Client, WriteText(c)
    PROVE  IInv'
<1> DEFINE u == request[c].user
           v == request[c].value
<1>1. /\ request[c] \in Request /\ request[c].at = "write"
      /\ u \in User /\ v \in own[u] /\ v \in Identity /\ file[u] \in Text
  BY Shape, FileShape DEF WriteText, RequestSound, TextSound
<1>2. Idle \in Request /\ Idle.at = "idle"
  BY DEF Idle, Request
<1>3. /\ request' \in [Client -> Request] /\ request'[c] = Idle
      /\ \A d \in Client \ {c} : request'[d] = request[d]
  BY <1>2, RequestEffect DEF IInv, WriteText, Answer
<1>4. /\ file' \in [User -> Text \cup {None}]
      /\ file'[u] = Overlaid(v, file[u]) /\ file'[u] \in Text
      /\ \A w \in User \ {u} : file'[w] = file[w]
  BY <1>1, OverlaidIs DEF IInv, TypeOK, WriteText
<1>5. /\ answer' \in [user : User \cup {None}, value : Identity \cup {None}]
      /\ AnswerSound'
  BY <1>1 DEF WriteText, Answer, AnswerSound
<1>6. TypeOK'
  BY <1>1, <1>3, <1>4, <1>5 DEF IInv, TypeOK, WriteText
<1>7. ASSUME NEW d \in Client PROVE RequestSound(d)'
  <2>1. CASE d = c
    BY <1>2, <1>3, <2>1 DEF RequestSound
  <2>2. CASE d # c
    <3>1. request'[d] = request[d] /\ RequestSound(d)
      BY <1>3, <2>2, Shape
    <3>2. \A w \in User : TextSound(w) => TextSound(w)'
      BY <1>1, <1>4, OverlaidIs DEF TextSound, WriteText
    <3> QED
      BY <3>1, <3>2 DEF RequestSound, WriteText
  <2> QED
    BY <2>1, <2>2
<1>8. ASSUME NEW i \in DOMAIN valuations' PROVE SignatureSound(i)'
  BY DEF IInv, SignatureSound, WriteText
<1>9. ASSUME NEW w \in User
      PROVE  FileSound(w)' /\ (w \notin torn' => LoneSound(w)')
  <2>1. CASE w = u
    <3>1. FileSound(w)'
      BY <1>1, <1>4, <2>1, OverlaidIs DEF FileSound, TextSound, WriteText
    <3>2. ASSUME w \notin torn' PROVE LoneSound(w)'
      <4>1. w \notin torn /\ c \in Writers(w)
        BY <1>1, <2>1, <3>2 DEF Writers, WriteText
      <4>2. file[u].size = 0 /\ \A d \in Writers(w) : d = c
        BY <1>1, <2>1, <4>1, FileShape DEF LoneSound
      <4>3. Writers(w)' = {}
        BY <1>2, <1>3, <4>2 DEF Writers
      <4>4. file'[w].text \in own'[w]
        BY <1>1, <1>4, <2>1, <4>2, OverlaidIs DEF WriteText
      <4> QED
        BY <4>3, <4>4 DEF LoneSound
    <3> QED
      BY <3>1, <3>2
  <2>2. CASE w # u
    <3>1. Writers(w)' = Writers(w)
      BY <1>1, <1>2, <1>3, <2>2 DEF Writers
    <3>2. file'[w] = file[w] /\ own' = own /\ torn' = torn
      BY <1>4, <2>2 DEF WriteText
    <3> QED
      BY <3>1, <3>2, FileShape DEF FileSound, TextSound, LoneSound
  <2> QED
    BY <2>1, <2>2
<1> QED
  BY <1>5, <1>6, <1>7, <1>8, <1>9 DEF IInv

\* A crash ends every request, and marks the files that one was writing.
LEMMA RestartKeeps ==
    ASSUME IInv, Restart
    PROVE  IInv'
<1>1. Idle \in Request /\ Idle.at = "idle"
  BY DEF Idle, Request
<1>2. request' \in [Client -> Request] /\ \A c \in Client : request'[c].at = "idle"
  BY <1>1 DEF Restart
<1>3. TypeOK'
  BY <1>2 DEF IInv, TypeOK, Restart
<1>4. AnswerSound' /\ \A c \in Client : RequestSound(c)'
  BY <1>2 DEF IInv, AnswerSound, RequestSound, Restart
<1>5. ASSUME NEW i \in DOMAIN valuations' PROVE SignatureSound(i)'
  BY DEF IInv, SignatureSound, Restart
<1>6. ASSUME NEW u \in User
      PROVE  FileSound(u)' /\ (u \notin torn' => LoneSound(u)')
  <2>1. Writers(u)' = {} /\ (u \notin torn' => Writers(u) = {} /\ u \notin torn)
    BY <1>2 DEF Writers, Restart
  <2> QED
    BY <2>1, FileShape DEF FileSound, TextSound, LoneSound, Restart
<1> QED
  BY <1>3, <1>4, <1>5, <1>6 DEF IInv

-----------------------------------------------------------------------------

LEMMA Initially == Init => IInv
<1> SUFFICES ASSUME Init PROVE IInv
  OBVIOUS
<1>1. Idle \in Request /\ Idle.at = "idle"
  BY DEF Idle, Request
<1>2. TypeOK
  BY <1>1 DEF Init, TypeOK
<1>3. \A c \in Client : request[c].at = "idle"
  BY <1>1 DEF Init
<1>4. \A u \in User : FileSound(u) /\ LoneSound(u)
  BY <1>3 DEF Init, FileSound, LoneSound, Writers
<1>5. AnswerSound /\ DOMAIN valuations = {}
  BY DEF Init, AnswerSound
<1> QED
  BY <1>2, <1>3, <1>4, <1>5 DEF IInv, RequestSound

LEMMA Inductive == IInv /\ [Next]_vars => IInv'
<1> SUFFICES ASSUME IInv, [Next]_vars PROVE IInv'
  OBVIOUS
<1>1. CASE Next
  BY <1>1, CreateValuationKeeps, DeleteValuationKeeps, BeginLoadKeeps,
     BeginSaveKeeps, ReadFileKeeps, FindSeedKeeps, NoSeedKeeps, TruncateKeeps,
     WriteTextKeeps, RestartKeeps DEF Next
<1>2. CASE UNCHANGED vars
  BY <1>2 DEF vars, IInv, TypeOK, AnswerSound, RequestSound, TextSound,
              SignatureSound, FileSound, LoneSound, Writers
<1> QED
  BY <1>1, <1>2

LEMMA Invariance == Spec => []IInv
  BY Initially, Inductive, PTL DEF Spec

-----------------------------------------------------------------------------

\* A file is one text or not there, and what a request carries and answers is an
\* identity or nothing (the routes of /operator-defaults).
THEOREM TypeCorrect == Spec => []TypeOK
<1>1. IInv => TypeOK
  BY DEF IInv
<1> QED
  BY <1>1, Invariance, PTL

\* No load answers a user with the identity of another, whether it read a file,
\* one torn by overlapping writers included, or seeded it from the history
\* (_load_operator_defaults, _seed_defaults_from_history).
THEOREM AnswerTheorem == Spec => []AnswerIsOwn
<1>1. IInv => AnswerIsOwn
  BY DEF IInv, AnswerSound, AnswerIsOwn
<1> QED
  BY <1>1, Invariance, PTL

\* A file is readable and its owner's whenever nobody is writing it, unless two
\* writers or a crash have met on it (path.write_text).
THEOREM LoneWritesTheorem == Spec => []LoneWritesReadable
<1>1. IInv => LoneWritesReadable
  BY DEF IInv, LoneSound, LoneWritesReadable
<1> QED
  BY <1>1, Invariance, PTL
=============================================================================
