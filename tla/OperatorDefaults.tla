-------------------------- MODULE OperatorDefaults --------------------------
(***************************************************************************)
(* The appraiser identity each user keeps in a JSON file of their own      *)
(* (app/valuation_statement/routes.py): GET and PUT /operator-defaults and *)
(* the load at the end of an extraction, which seeds a missing file from   *)
(* the user's newest signed valuation.                                     *)
(*                                                                         *)
(* path.write_text opens the file, which truncates it, and then writes the *)
(* whole text from offset 0 in one call: two writers of different lengths  *)
(* can leave the tail of the longer text behind the shorter one.           *)
(***************************************************************************)
EXTENDS Naturals, Sequences

CONSTANTS
    User,           \* callers, as the proxy names them
    Identity,       \* an identity: the values of the five fields
    Size,           \* the length of its JSON text
    Client,         \* requests that may be in progress at the same time
    None,           \* no file, no identity, no user
    Garbled,        \* a text that json.loads refuses, the empty one included
    Blank,          \* a signature of white space only
    MaxValuations,  \* how many valuations are ever created
    MaxRestarts     \* how often the service crashes and restarts

ASSUME SizeAssumption == Size \in [Identity -> Nat \ {0}]

ASSUME NoneAssumption == /\ None \notin Identity \cup User
                         /\ Garbled \notin Identity \cup {None}
                         /\ Blank \notin Identity \cup {None}

ASSUME BoundsAssumption == MaxValuations \in Nat /\ MaxRestarts \in Nat

VARIABLES
    file,        \* per user, the file: None, or its text and length
    valuations,  \* processed_valuations, oldest first: owner and signature
    request,     \* the requests in progress
    answer,      \* the latest answer with defaults, and to whom
    own,         \* history: identities each user has saved or signed with
    saved,       \* history: users whose PUT has completed
    torn,        \* history: users whose file two writers, or a writer and a
                 \* crash, have met on
    restarts     \* crashes so far

vars == <<file, valuations, request, answer, own, saved, torn, restarts>>

Text == [text : Identity \cup {Garbled}, size : Nat]

\* at: the next thing the request does to the file.
Request == [at : {"idle", "read", "seed", "truncate", "write"},
            put : BOOLEAN, user : User \cup {None},
            value : Identity \cup {None}]

Idle == [at |-> "idle", put |-> FALSE, user |-> None, value |-> None]

\* A file holds one text or does not exist, and what a request writes or
\* answers is an identity, never a blank one (_seed_defaults_from_history).
TypeOK ==
    /\ file \in [User -> Text \cup {None}]
    /\ valuations \in Seq([owner : User, signed : Identity \cup {None, Blank},
                           live : BOOLEAN])
    /\ request \in [Client -> Request]
    /\ answer \in [user : User \cup {None}, value : Identity \cup {None}]
    /\ own \in [User -> SUBSET Identity]
    /\ saved \in SUBSET User
    /\ torn \in SUBSET User
    /\ restarts \in Nat

Init ==
    /\ file = [u \in User |-> None]
    /\ valuations = <<>>
    /\ request = [c \in Client |-> Idle]
    /\ answer = [user |-> None, value |-> None]
    /\ own = [u \in User |-> {}]
    /\ saved = {}
    /\ torn = {}
    /\ restarts = 0

-----------------------------------------------------------------------------
\* The valuations a seed is derived from.

\* POST /processed: signed is None when final_values carries no mäklarnamn.
CreateValuation(u, signed) ==
    /\ Len(valuations) < MaxValuations
    /\ valuations' = Append(valuations, [owner |-> u, signed |-> signed,
                                         live |-> TRUE])
    /\ own' = [own EXCEPT ![u] = @ \cup ({signed} \cap Identity)]
    /\ UNCHANGED <<file, request, answer, saved, torn, restarts>>

DeleteValuation(i) ==
    /\ valuations[i].live
    /\ valuations' = [valuations EXCEPT ![i].live = FALSE]
    /\ UNCHANGED <<file, request, answer, own, saved, torn, restarts>>

\* Mutant: the newest signature, whoever it belongs to.
AnySignature(u) == {i \in DOMAIN valuations : /\ valuations[i].live
                                              /\ valuations[i].signed # None}

SignedBy(u) == {i \in DOMAIN valuations : /\ valuations[i].live
                                          /\ valuations[i].owner = u
                                          /\ valuations[i].signed # None}

\* What the newest of them was signed with, as a set of at most one: nothing
\* if that signature is blank, whatever the older ones say.
Seed(u) ==
    {valuations[i].signed :
        i \in {i \in SignedBy(u) : \A j \in SignedBy(u) : j <= i}} \ {Blank}

-----------------------------------------------------------------------------
\* Loading.

\* GET /operator-defaults, or an extraction that has come to its end:
\* path.exists() decides what is next.
BeginLoad(c, u) ==
    /\ request[c].at = "idle"
    /\ request' = [request EXCEPT
          ![c] = [at |-> IF file[u] = None THEN "seed" ELSE "read",
                  put |-> FALSE, user |-> u, value |-> None]]
    /\ UNCHANGED <<file, valuations, answer, own, saved, torn, restarts>>

Answer(c, value) ==
    /\ answer' = [user |-> request[c].user, value |-> value]
    /\ request' = [request EXCEPT ![c] = Idle]

\* A text that does not parse is answered with the empty defaults.
ReadFile(c) ==
    LET text == file[request[c].user].text IN
    /\ request[c].at = "read"
    /\ Answer(c, IF text = Garbled THEN None ELSE text)
    /\ UNCHANGED <<file, valuations, own, saved, torn, restarts>>

FindSeed(c) ==
    /\ request[c].at = "seed"
    /\ \E seed \in Seed(request[c].user) :
          request' = [request EXCEPT ![c].at = "truncate", ![c].value = seed]
    /\ UNCHANGED <<file, valuations, answer, own, saved, torn, restarts>>

\* Mutant: an absent seed is written like any other.
SeedAnyway(c) ==
    /\ request[c].at = "seed"
    /\ Seed(request[c].user) = {}
    /\ file' = [file EXCEPT ![request[c].user] = [text |-> None, size |-> 4]]
    /\ Answer(c, None)
    /\ UNCHANGED <<valuations, own, saved, torn, restarts>>

NoSeed(c) ==
    /\ request[c].at = "seed"
    /\ Seed(request[c].user) = {}
    /\ Answer(c, None)
    /\ UNCHANGED <<file, valuations, own, saved, torn, restarts>>

-----------------------------------------------------------------------------
\* Saving, and writing the file for a save or a seed.

BeginSave(c, u, v) ==
    /\ request[c].at = "idle"
    /\ request' = [request EXCEPT
          ![c] = [at |-> "truncate", put |-> TRUE, user |-> u, value |-> v]]
    /\ own' = [own EXCEPT ![u] = @ \cup {v}]
    /\ UNCHANGED <<file, valuations, answer, saved, torn, restarts>>

\* Requests between the opening and the writing of u's file.
Writers(u) == {c \in Client : request[c].at = "write" /\ request[c].user = u}

\* Mutant: the file is opened for writing in place.
OpenInPlace(c) ==
    LET u == request[c].user IN
    /\ request[c].at = "truncate"
    /\ file' = [file EXCEPT ![u] = IF @ = None
                                   THEN [text |-> Garbled, size |-> 0] ELSE @]
    /\ request' = [request EXCEPT ![c].at = "write"]
    /\ torn' = IF Writers(u) = {} THEN torn ELSE torn \cup {u}
    /\ UNCHANGED <<valuations, answer, own, saved, restarts>>

Truncate(c) ==
    LET u == request[c].user IN
    /\ request[c].at = "truncate"
    /\ file' = [file EXCEPT ![u] = [text |-> Garbled, size |-> 0]]
    /\ request' = [request EXCEPT ![c].at = "write"]
    /\ torn' = IF Writers(u) = {} THEN torn ELSE torn \cup {u}
    /\ UNCHANGED <<valuations, answer, own, saved, restarts>>

\* v's text written over the first bytes of the old one.
Overlaid(v, old) ==
    IF Size[v] >= old.size THEN [text |-> v, size |-> Size[v]]
    ELSE [text |-> Garbled, size |-> old.size]

WriteText(c) ==
    LET u == request[c].user
        v == request[c].value IN
    /\ request[c].at = "write"
    /\ file' = [file EXCEPT ![u] = Overlaid(v, @)]
    /\ saved' = IF request[c].put THEN saved \cup {u} ELSE saved
    /\ Answer(c, v)
    /\ UNCHANGED <<valuations, own, torn, restarts>>

-----------------------------------------------------------------------------

Restart ==
    /\ restarts < MaxRestarts
    /\ restarts' = restarts + 1
    /\ request' = [c \in Client |-> Idle]
    /\ torn' = torn \cup {u \in User : Writers(u) # {}}
    /\ UNCHANGED <<file, valuations, answer, own, saved>>

Next ==
    \/ \E u \in User, signed \in Identity \cup {None, Blank} :
          CreateValuation(u, signed)
    \/ \E i \in DOMAIN valuations : DeleteValuation(i)
    \/ \E c \in Client :
          \/ \E u \in User : \/ BeginLoad(c, u)
                             \/ \E v \in Identity : BeginSave(c, u, v)
          \/ ReadFile(c) \/ FindSeed(c) \/ NoSeed(c)
          \/ Truncate(c) \/ WriteText(c)
    \/ Restart

Spec == Init /\ [][Next]_vars

-----------------------------------------------------------------------------

\* A load hands a user an identity they saved or signed with themselves, or
\* the empty one: never another user's, whatever the file went through.
AnswerIsOwn ==
    answer.value # None => answer.value \in own[answer.user]

\* A file whose writers were never interrupted, by each other or by a crash,
\* is readable whenever nobody is writing it, and its owner's.
LoneWritesReadable ==
    \A u \in User \ torn : Writers(u) = {} =>
        file[u] = None \/ file[u].text \in own[u]

\* The seed never overwrites an explicit save: once a PUT has completed, only
\* another PUT changes the file (_load_operator_defaults).
SaveNeverOverwritten ==
    [][\A u \in saved : file'[u] # file[u] =>
          \E c \in Client : request[c].user = u /\ request[c].put
                            /\ request'[c] # request[c]]_vars
=============================================================================
