-------------------------- MODULE NoteWritebackProofs --------------------------
(***************************************************************************)
(* Notes, DNA and sign-in, for any number of requests, notes, lists and    *)
(* events.                                                                 *)
(***************************************************************************)
EXTENDS NoteWriteback, FiniteSetTheorems, TLAPS

-----------------------------------------------------------------------------
(* The sign-in.  A revoked grant was issued, and no copy of the cache that *)
(* an operation holds has it.                                              *)
RevokedInv ==
    /\ revoked \subseteq issued
    /\ store \subseteq issued
    /\ store \cap revoked = {}
    /\ \A c \in Calls : /\ call[c].cache \subseteq issued
                        /\ call[c].cache \cap revoked = {}

AuthInv == AuthTypeOK /\ RevokedInv

LEMMA AuthInitHolds == AuthInit => AuthInv
  BY GrantsAssumption
  DEF AuthInit, AuthInv, AuthTypeOK, RevokedInv, Idle, Doing, Steps

LEMMA AuthTypeHolds == AuthTypeOK /\ [AuthNext]_authVars => AuthTypeOK'
<1>. SUFFICES ASSUME AuthTypeOK, [AuthNext]_authVars PROVE AuthTypeOK'
  OBVIOUS
<1>. USE DEF AuthTypeOK, Step, Doing, Steps, Answers
<1>1. ASSUME NEW g \in Grants, Login(g) \/ FlowExpires(g) PROVE AuthTypeOK'
  BY <1>1 DEF Login, FlowExpires
<1>2. ASSUME NEW c \in Calls, TokenStep(c) \/ TokenDone(c) PROVE AuthTypeOK'
  <2>1. CASE TokenLoad(c)
    BY <2>1 DEF TokenLoad
  <2>2. CASE TokenSave(c) \/ TokenDone(c)
    BY <2>2 DEF TokenSave, TokenDone
  <2>3. ASSUME NEW a \in Answers, TokenSilent(c, a)
        PROVE  AuthTypeOK'
    BY <2>3 DEF TokenSilent
  <2>. QED  BY <1>2, <2>1, <2>2, <2>3 DEF TokenStep
<1>3. ASSUME NEW c \in Calls, SignInStep(c) PROVE AuthTypeOK'
  <2>1. ASSUME NEW g \in Grants, CallbackLoad(c, g) PROVE AuthTypeOK'
    BY <2>1 DEF CallbackLoad
  <2>2. CASE Exchange(c)
    <3>1. call[c] \in [at : Steps, cache : SUBSET Grants, flow : SUBSET Grants]
      OBVIOUS
    <3>. QED  BY <2>2, <3>1 DEF Exchange
  <2>3. CASE ExchangeFails(c) \/ SignInSave(c)
    BY <2>3 DEF ExchangeFails, SignInSave
  <2>. QED  BY <1>3, <2>1, <2>2, <2>3 DEF SignInStep
<1>4. ASSUME NEW c \in Calls, SignOutStep(c) PROVE AuthTypeOK'
  BY <1>4 DEF SignOutStep, SignOutLoad, SignOutSave, SignOutDelete
<1>5. CASE AuthRestart
  BY <1>5 DEF AuthRestart, Idle
<1>6. CASE UNCHANGED authVars
  BY <1>6 DEF authVars
<1>. QED  BY <1>1, <1>2, <1>3, <1>4, <1>5, <1>6 DEF AuthNext

LEMMA RevokedHolds == AuthInv /\ [AuthNext]_authVars => RevokedInv'
<1>. SUFFICES ASSUME AuthInv, [AuthNext]_authVars PROVE RevokedInv'
  OBVIOUS
<1>. USE DEF AuthInv, AuthTypeOK, RevokedInv, Step, Doing
<1>1. ASSUME NEW g \in Grants, Login(g) \/ FlowExpires(g) PROVE RevokedInv'
  BY <1>1 DEF Login, FlowExpires
<1>2. ASSUME NEW c \in Calls, TokenStep(c) \/ TokenDone(c) PROVE RevokedInv'
  BY <1>2 DEF TokenStep, TokenLoad, TokenSave, TokenDone, TokenSilent
<1>3. ASSUME NEW c \in Calls, SignInStep(c) PROVE RevokedInv'
  <2>1. CASE \E g \in Grants : CallbackLoad(c, g)
    BY <2>1 DEF CallbackLoad
  <2>2. CASE Exchange(c)
    BY <2>2 DEF Exchange
  <2>3. CASE ExchangeFails(c) \/ SignInSave(c)
    BY <2>3 DEF ExchangeFails, SignInSave
  <2>. QED  BY <1>3, <2>1, <2>2, <2>3 DEF SignInStep
<1>4. ASSUME NEW c \in Calls, SignOutStep(c) PROVE RevokedInv'
  <2>1. CASE SignOutLoad(c) \/ SignOutSave(c)
    BY <2>1 DEF SignOutLoad, SignOutSave
  <2>2. CASE SignOutDelete(c)
    BY <2>2 DEF SignOutDelete, Held
  <2>. QED  BY <1>4, <2>1, <2>2 DEF SignOutStep
<1>5. CASE AuthRestart
  BY <1>5 DEF AuthRestart, Idle
<1>6. CASE UNCHANGED authVars
  BY <1>6 DEF authVars
<1>. QED  BY <1>1, <1>2, <1>3, <1>4, <1>5, <1>6 DEF AuthNext

(* Every step of the composed system is one of the sign-in's or leaves it. *)
LEMMA StepIsAuth == [Next]_vars => [AuthNext]_authVars
<1>. SUFFICES ASSUME [Next]_vars PROVE [AuthNext]_authVars
  OBVIOUS
<1>1. ASSUME NEW r \in Requests, CommitStep(r) PROVE [AuthNext]_authVars
  <2>0. r \in Calls
    BY WritebackAssumption
  <2>1. CASE AskToken(r)
    BY <2>0, <2>1 DEF AskToken, AuthNext, TokenStep
  <2>2. CASE CreateEvent(r) \/ EventFails(r) \/ NotSignedIn(r)
    BY <2>0, <2>2 DEF CreateEvent, EventFails, NotSignedIn, AuthNext
  <2>3. CASE \E sent \in BOOLEAN : Confirm(r, sent)
    BY <2>0, <2>3 DEF Confirm, AuthNext
  <2>4. CASE \/ \E n \in Notes, keys \in SUBSET Lists : BeginCommit(r, n, keys)
             \/ CommitNote(r) \/ EventsTried(r)
    BY <2>4 DEF BeginCommit, CommitNote, EventsTried
  <2>. QED  BY <1>1, <2>1, <2>2, <2>3, <2>4 DEF CommitStep
<1>2. ASSUME NEW r \in Requests, ExtractStep(r) \/ RequestFails(r)
      PROVE  [AuthNext]_authVars
  BY <1>2 DEF ExtractStep, BeginExtract, CommitExtract, CommitStyle, RequestFails
<1>3. CASE SignInOutStep
  BY <1>3 DEF SignInOutStep, AuthNext, TokenStep, SignOutStep
<1>4. CASE Restart
  BY <1>4 DEF Restart, AuthNext
<1>5. CASE UNCHANGED vars
  BY <1>5 DEF vars
<1>. QED  BY <1>1, <1>2, <1>3, <1>4, <1>5 DEF Next

LEMMA AuthInvariant == Spec => []AuthInv
<1>1. Init => AuthInv
  BY AuthInitHolds DEF Init
<1>2. AuthInv /\ [Next]_vars => AuthInv'
  BY StepIsAuth, AuthTypeHolds, RevokedHolds DEF AuthInv
<1>. QED  BY <1>1, <1>2, PTL DEF Spec

(* What the notes and the RM's browser do to the sign-in is what the       *)
(* sign-in's own specification allows.                                     *)
THEOREM AuthRefinement == Spec => AuthSpec
<1>1. Init => AuthInit
  BY DEF Init
<1>. QED  BY <1>1, StepIsAuth, PTL DEF Spec, AuthSpec

(* A sign-out is final for every grant no operation had a copy of.         *)
THEOREM SignOutTheorem == Spec => []SignOutSticks
<1>1. AuthInv => SignOutSticks
  BY DEF AuthInv, RevokedInv, SignOutSticks
<1>. QED  BY <1>1, AuthInvariant, PTL

-----------------------------------------------------------------------------
(* Types of the notes' state.                                              *)
Entry == [by : {"delta", "extract"}, keys : SUBSET Lists, note : SUBSET Notes,
          base : Int]

Work == [op : {"idle", "commit", "calendar", "mail", "extract", "style"},
         note : SUBSET Notes, seen : [Lists -> SUBSET Items],
         read : SUBSET Notes, at : Int, made : SUBSET Int]

TypeInv ==
    /\ notes \subseteq Notes
    /\ lists \in [Lists -> SUBSET Items]
    /\ version \in Nat /\ cited \subseteq Notes
    /\ style \in [sources : SUBSET Notes, cited : SUBSET Notes]
    /\ calendar \in [Notes -> SUBSET Int]
    /\ req \in [Requests -> Work]
    /\ asked \in [Notes -> SUBSET Lists]
    /\ hist \in Seq(Entry)

(* Which note a request has: a commit one that is not in the CRM yet, its  *)
(* calendar part one that is; no two requests have the same.               *)
HandsInv ==
    /\ \A r \in Requests :
          /\ req[r].op \in {"commit", "calendar", "mail"}
                => \E n \in Notes : req[r].note = {n}
          /\ req[r].op \in {"idle", "extract", "style"} => req[r].note = {}
          /\ req[r].op = "commit" => req[r].note \cap notes = {}
          /\ req[r].op \in {"calendar", "mail"} => req[r].note \subseteq notes
          /\ req[r].read \subseteq notes
    /\ \A r, s \in Requests : r # s => req[r].note \cap req[s].note = {}

(* The history and the CRM.                                                *)
WholeInv ==
    /\ \A i \in DOMAIN hist : hist[i].note \subseteq notes
    /\ \A n \in notes : asked[n] # {} =>
          \E i \in DOMAIN hist : hist[i].note = {n}
    /\ EventsFollowNote

BaseInv == TypeInv /\ HandsInv /\ WholeInv

(* The steps, without those of the sign-in that change nothing else.       *)
Quiet == UNCHANGED <<notes, dnaVars, style, planVars, req, asked>>

LEMMA NoteOf ==
    ASSUME NEW r \in Requests, NEW n \in Notes, req[r].note = {n}
    PROVE  (CHOOSE x \in Notes : x \in req[r].note) = n
  OBVIOUS

(* The items kept of an answer name notes that were read, or none; one     *)
(* without a source stands for a citation that is not there.               *)
LEMMA GroundedItems ==
    ASSUME NEW answer, NEW read, Unsourced \notin read
    PROVE  /\ Grounded(answer, read) \subseteq read \cup {Unsourced}
           /\ Unsourced \in Grounded(answer, read) <=> ~(answer \subseteq read)
  BY DEF Grounded

(* The citations of some lists are the notes that their items name.        *)
LEMMA CitationsAre ==
    ASSUME NEW all, NEW S, \A k \in Lists : all[k] \subseteq S \cup {Unsourced}
    PROVE  /\ Citations(all) \subseteq S
           /\ \A k \in Lists : all[k] \subseteq Citations(all) \cup {Unsourced}
<1>1. ASSUME NEW x \in Citations(all) PROVE x \in S
  <2>1. x # Unsourced /\ x \in UNION {all[k] : k \in Lists}
    BY DEF Citations
  <2>2. PICK k \in Lists : x \in all[k]
    BY <2>1
  <2>. QED  BY <2>1, <2>2
<1>2. ASSUME NEW k \in Lists, NEW x \in all[k], x # Unsourced
      PROVE  x \in Citations(all)
  <2>1. x \in UNION {all[j] : j \in Lists}
    OBVIOUS
  <2>. QED  BY <1>2, <2>1 DEF Citations
<1>. QED  BY <1>1, <1>2

LEMMA NothingType == Nothing \in Work /\ NoLists \in [Lists -> SUBSET Items]
  BY DEF Nothing, Handling, NoLists, Work

-----------------------------------------------------------------------------
LEMMA BaseInit == Init => BaseInv
<1>. SUFFICES ASSUME Init PROVE BaseInv
  OBVIOUS
<1>0. Imported \subseteq Notes
  BY WritebackAssumption
<1>1. hist \in Seq(Entry)
  <2>1. CASE hist = <<>>
    BY <2>1
  <2>2. CASE hist = <<[by |-> "extract", keys |-> Lists, note |-> {},
                       base |-> 0]>>
    <3>1. [by |-> "extract", keys |-> Lists, note |-> {}, base |-> 0] \in Entry
      BY DEF Entry
    <3>. QED  BY <2>2, <3>1
  <2>. QED  BY <2>1, <2>2 DEF Init
<1>2. TypeInv
  <2>1. lists \in [Lists -> SUBSET Items] /\ version \in Nat
        /\ cited \subseteq Notes
    BY <1>0 DEF Init, NoLists, Items
  <2>. QED  BY <1>0, <1>1, <2>1, NothingType DEF Init, TypeInv
<1>3. HandsInv
  BY DEF Init, HandsInv, Nothing, Handling
<1>4. WholeInv
  <2>1. \A i \in DOMAIN hist : hist[i].note = {}
    BY DEF Init
  <2>2. \A n \in Notes : asked[n] = {} /\ calendar[n] = {}
    BY DEF Init
  <2>3. notes \subseteq Notes
    BY <1>0 DEF Init
  <2>. QED  BY <2>1, <2>2, <2>3 DEF WholeInv, EventsFollowNote
<1>. QED  BY <1>2, <1>3, <1>4 DEF BaseInv

(* A request that goes on with its note, or has none.                      *)
LEMMA HandsKept ==
    ASSUME TypeInv, HandsInv, NEW r \in Requests, NEW h \in Work,
           req' = [req EXCEPT ![r] = h], notes' = notes,
           \/ /\ h.op \in {"idle", "extract", "style"} /\ h.note = {}
              /\ h.read \subseteq notes
           \/ /\ {req[r].op, h.op} \subseteq {"calendar", "mail"}
              /\ h.note = req[r].note /\ h.read \subseteq notes
    PROVE  HandsInv'
  BY DEF TypeInv, HandsInv

(* Nothing of the notes or of the DNA changes, and events only for a note  *)
(* that is there.                                                          *)
LEMMA WholeKept ==
    ASSUME WholeInv, UNCHANGED <<notes, hist, asked>>,
           \A n \in Notes : calendar'[n] = calendar[n] \/ n \in notes
    PROVE  WholeInv'
  BY DEF WholeInv, EventsFollowNote

LEMMA BaseBegin ==
    ASSUME BaseInv, NEW r \in Requests, NEW n \in Notes,
           NEW keys \in SUBSET Lists, BeginCommit(r, n, keys)
    PROVE  BaseInv'
<1>. USE DEF BaseInv
<1>1. Handling("commit", {n}, lists, {}, Len(hist), {}) \in Work
  BY DEF TypeInv, Handling, Work
<1>2. TypeInv'
  BY <1>1 DEF TypeInv, BeginCommit, Becomes, dnaVars, planVars
<1>3. HandsInv'
  BY DEF TypeInv, HandsInv, BeginCommit, Becomes, Handling, Fresh
<1>4. WholeInv'
  <2>1. n \notin notes /\ UNCHANGED <<notes, dnaVars, planVars>>
        /\ \A m \in notes : asked'[m] = asked[m]
    BY DEF BeginCommit, Fresh, TypeInv
  <2>. QED  BY <2>1 DEF WholeInv, EventsFollowNote, dnaVars, planVars
<1>. QED  BY <1>2, <1>3, <1>4

(* What a commit of a note does, with its note named.                      *)
LEMMA CommitParts ==
    ASSUME BaseInv, NEW r \in Requests, CommitNote(r)
    PROVE  \E n \in Notes, planned \in Nat :
              /\ req[r].op = "commit" /\ req[r].note = {n} /\ n \notin notes
              /\ notes' = notes \cup {n}
              /\ \/ asked[n] # {} /\ ApplyDelta(r, asked[n])
                 \/ asked[n] = {} /\ UNCHANGED dnaVars
              /\ req' = [req EXCEPT ![r] =
                            Handling("calendar", {n}, NoLists, {}, planned, {})]
              /\ UNCHANGED <<style, planVars, asked>>
<1>1. PICK n \in Notes : req[r].note = {n}
  BY DEF BaseInv, HandsInv, CommitNote
<1>2. (CHOOSE x \in Notes : x \in req[r].note) = n
  BY <1>1, NoteOf
<1>3. n \notin notes /\ req[r].op = "commit"
  BY <1>1 DEF BaseInv, HandsInv, CommitNote
<1>4. \E planned \in {0, MaxEvents} :
         req' = [req EXCEPT ![r] =
                    Handling("calendar", {n}, NoLists, {}, planned, {})]
  BY <1>2 DEF CommitNote, Becomes
<1>5. 0 \in Nat /\ MaxEvents \in Nat
  BY WritebackAssumption
<1>6. /\ notes' = notes \cup {n}
      /\ \/ asked[n] # {} /\ ApplyDelta(r, asked[n])
         \/ asked[n] = {} /\ UNCHANGED dnaVars
      /\ UNCHANGED <<style, planVars, asked>>
  BY <1>2 DEF CommitNote
<1>. QED  BY <1>1, <1>3, <1>4, <1>5, <1>6

LEMMA BaseCommit ==
    ASSUME BaseInv, NEW r \in Requests, CommitNote(r)
    PROVE  BaseInv'
<1>. USE DEF BaseInv
<1>1. PICK n \in Notes, planned \in Nat :
         /\ req[r].op = "commit" /\ req[r].note = {n} /\ n \notin notes
         /\ notes' = notes \cup {n}
         /\ \/ asked[n] # {} /\ ApplyDelta(r, asked[n])
            \/ asked[n] = {} /\ UNCHANGED dnaVars
         /\ req' = [req EXCEPT ![r] =
                       Handling("calendar", {n}, NoLists, {}, planned, {})]
         /\ UNCHANGED <<style, planVars, asked>>
  BY CommitParts
<1>2. Handling("calendar", {n}, NoLists, {}, planned, {}) \in Work
  BY NothingType DEF Handling, Work
<1>3. HandsInv'
  BY <1>1 DEF TypeInv, HandsInv, Handling
<1>4. req[r] \in Work /\ asked[n] \in SUBSET Lists
  BY DEF TypeInv
<1>5. CASE asked[n] # {} /\ ApplyDelta(r, asked[n])
  <2> DEFINE e == [by |-> "delta", keys |-> asked[n], note |-> {n},
                   base |-> req[r].at]
  <2>1. e \in Entry /\ hist' = Append(hist, e)
    BY <1>1, <1>4, <1>5 DEF ApplyDelta, Wrote, Entry, Work
  <2>2. TypeInv'
    <3>1. hist' \in Seq(Entry)
      BY <2>1 DEF TypeInv
    <3>2. lists' \in [Lists -> SUBSET Items] /\ version' \in Nat
          /\ cited' \subseteq Notes
      BY <1>1, <1>4, <1>5 DEF TypeInv, ApplyDelta, Merged, NextVersion, Work,
                              Items
    <3>. QED  BY <1>1, <1>2, <3>1, <3>2 DEF TypeInv, planVars
  <2>3. /\ DOMAIN hist' = 1..Len(hist)+1
        /\ \A i \in 1..Len(hist) : hist'[i] = hist[i]
        /\ hist'[Len(hist)+1] = e
        /\ DOMAIN hist = 1..Len(hist) /\ Len(hist) \in Nat
    BY <2>1 DEF TypeInv
  <2>. HIDE DEF e
  <2>4. e.note = {n}
    BY DEF e
  <2>5. WholeInv'
    <3>1. \A i \in DOMAIN hist' : hist'[i].note \subseteq notes'
      BY <1>1, <2>3, <2>4 DEF WholeInv
    <3>2. \A m \in notes' : asked'[m] # {} =>
             \E i \in DOMAIN hist' : hist'[i].note = {m}
      <4>1. ASSUME NEW m \in notes, asked[m] # {}
            PROVE  \E i \in DOMAIN hist' : hist'[i].note = {m}
        <5>1. PICK i \in DOMAIN hist : hist[i].note = {m}
          BY <4>1 DEF WholeInv
        <5>2. i \in DOMAIN hist' /\ hist'[i].note = {m}
          BY <2>3, <5>1
        <5>. QED  BY <5>2
      <4>2. hist'[Len(hist)+1].note = {n} /\ Len(hist)+1 \in DOMAIN hist'
        BY <2>3, <2>4
      <4>. QED  BY <1>1, <4>1, <4>2
    <3>. QED  BY <1>1, <3>1, <3>2 DEF WholeInv, EventsFollowNote, planVars
  <2>. QED  BY <1>3, <2>2, <2>5
<1>6. CASE asked[n] = {} /\ UNCHANGED dnaVars
  <2>1. TypeInv'
    BY <1>1, <1>2, <1>6 DEF TypeInv, dnaVars, planVars
  <2>2. WholeInv'
    BY <1>1, <1>6 DEF WholeInv, EventsFollowNote, dnaVars, planVars
  <2>. QED  BY <1>3, <2>1, <2>2
<1>. QED  BY <1>1, <1>5, <1>6

(* The steps of the calendar, with their note named.                       *)
LEMMA PlanParts ==
    ASSUME BaseInv, NEW r \in Requests,
           \/ CreateEvent(r) \/ EventFails(r) \/ NotSignedIn(r) \/ EventsTried(r)
           \/ \E sent \in BOOLEAN : Confirm(r, sent)
    PROVE  \E n \in Notes, h \in Work :
              /\ req[r].op \in {"calendar", "mail"} /\ req[r].note = {n}
              /\ n \in notes /\ UNCHANGED <<notes, dnaVars, style, asked>>
              /\ req' = [req EXCEPT ![r] = h]
              /\ \/ h = Nothing
                 \/ /\ h.op \in {"calendar", "mail"} /\ h.note = {n}
                    /\ h.read = req[r].read
              /\ \/ /\ calendar' = [calendar EXCEPT ![n] = @ \cup {req[r].at}]
                    /\ UNCHANGED <<mailed, answered>> /\ h.op # "idle"
                    /\ h.made \in {req[r].made, req[r].made \cup {req[r].at}}
                 \/ /\ UNCHANGED planVars
                    /\ h.op # "idle" /\ h.made = req[r].made
                 \/ /\ h = Nothing /\ UNCHANGED calendar
                    /\ \/ /\ UNCHANGED mailed
                          /\ \E count \in {0, Cardinality(req[r].made)} :
                                answered' = [answered EXCEPT ![n] = count]
                       \/ /\ mailed' = [mailed EXCEPT ![n] = req[r].made]
                          /\ answered' = [answered EXCEPT
                                             ![n] = Cardinality(req[r].made)]
<1>. USE DEF BaseInv
<1>1. /\ req[r].op \in {"calendar", "mail"}
      /\ UNCHANGED <<notes, dnaVars, style, asked>>
  BY DEF CreateEvent, EventFails, NotSignedIn, EventsTried, Confirm
<1>2. PICK n \in Notes : req[r].note = {n}
  BY <1>1 DEF HandsInv
<1>3. (CHOOSE x \in Notes : x \in req[r].note) = n /\ n \in notes
  BY <1>1, <1>2, NoteOf DEF HandsInv
<1>4. req[r] \in Work
  BY DEF TypeInv
<1>5. Nothing \in Work
  BY NothingType
<1>6. CASE CreateEvent(r)
  <2> DEFINE h == [req[r] EXCEPT !.at = req[r].at - 1,
                                 !.made = req[r].made \cup {req[r].at}]
  <2>1. /\ h \in Work /\ h.note = req[r].note /\ h.read = req[r].read
        /\ h.op = req[r].op /\ h.made = req[r].made \cup {req[r].at}
    <3>1. req[r].at - 1 \in Int /\ req[r].made \cup {req[r].at} \in SUBSET Int
      BY <1>4 DEF Work
    <3>. QED  BY <1>4, <3>1 DEF Work
  <2>2. /\ req' = [req EXCEPT ![r] = h] /\ req[r].op = "calendar"
        /\ calendar' = [calendar EXCEPT ![n] = @ \cup {req[r].at}]
        /\ UNCHANGED <<mailed, answered>>
    BY <1>3, <1>6 DEF CreateEvent, Becomes
  <2>. HIDE DEF h
  <2>. QED  BY <1>1, <1>2, <1>3, <2>1, <2>2
<1>7. CASE EventFails(r)
  <2> DEFINE h == [req[r] EXCEPT !.at = req[r].at - 1]
  <2>1. /\ h \in Work /\ h.note = req[r].note /\ h.read = req[r].read
        /\ h.op = req[r].op /\ h.made = req[r].made
    BY <1>4 DEF Work
  <2>2. /\ req' = [req EXCEPT ![r] = h] /\ req[r].op = "calendar"
        /\ UNCHANGED <<mailed, answered>>
        /\ \E there \in {{}, {req[r].at}} :
              calendar' = [calendar EXCEPT ![n] = @ \cup there]
    BY <1>3, <1>7 DEF EventFails, Becomes
  <2>3. \/ UNCHANGED planVars
        \/ calendar' = [calendar EXCEPT ![n] = @ \cup {req[r].at}]
    BY <2>2 DEF TypeInv, planVars
  <2>. HIDE DEF h
  <2>. QED  BY <1>1, <1>2, <1>3, <2>1, <2>2, <2>3
<1>8. CASE NotSignedIn(r)
  <2>1. /\ req' = [req EXCEPT ![r] = Nothing] /\ UNCHANGED <<calendar, mailed>>
        /\ answered' = [answered EXCEPT ![n] = 0]
    BY <1>3, <1>8 DEF NotSignedIn, Answer, Becomes
  <2>. QED  BY <1>1, <1>2, <1>3, <1>5, <2>1
<1>9. CASE EventsTried(r)
  <2>1. CASE req[r].made = {}
    <3>1. /\ req' = [req EXCEPT ![r] = Nothing] /\ UNCHANGED <<calendar, mailed>>
          /\ answered' = [answered EXCEPT ![n] = 0]
      BY <1>3, <1>9, <2>1 DEF EventsTried, Answer, Becomes
    <3>. QED  BY <1>1, <1>2, <1>3, <1>5, <3>1
  <2>2. CASE req[r].made # {}
    <3> DEFINE h == [req[r] EXCEPT !.op = "mail"]
    <3>1. /\ h \in Work /\ h.note = req[r].note /\ h.read = req[r].read
          /\ h.op = "mail" /\ h.made = req[r].made
      BY <1>4 DEF Work
    <3>2. req' = [req EXCEPT ![r] = h] /\ UNCHANGED planVars
      BY <1>9, <2>2 DEF EventsTried, Becomes, planVars
    <3>. HIDE DEF h
    <3>. QED  BY <1>1, <1>2, <1>3, <3>1, <3>2
  <2>. QED  BY <2>1, <2>2
<1>10. ASSUME NEW sent \in BOOLEAN, Confirm(r, sent)
       PROVE  /\ req' = [req EXCEPT ![r] = Nothing] /\ UNCHANGED calendar
              /\ UNCHANGED mailed \/ mailed' = [mailed EXCEPT ![n] = req[r].made]
              /\ answered' = [answered EXCEPT ![n] = Cardinality(req[r].made)]
  BY <1>3, <1>10 DEF Confirm, Answer, Becomes
<1>11. CASE \E sent \in BOOLEAN : Confirm(r, sent)
  BY <1>1, <1>2, <1>3, <1>5, <1>10, <1>11
<1>. QED  BY <1>6, <1>7, <1>8, <1>9, <1>11

LEMMA BasePlan ==
    ASSUME BaseInv, NEW r \in Requests,
           \/ CreateEvent(r) \/ EventFails(r) \/ NotSignedIn(r) \/ EventsTried(r)
           \/ \E sent \in BOOLEAN : Confirm(r, sent)
    PROVE  BaseInv'
<1>. USE DEF BaseInv
<1>1. PICK n \in Notes, h \in Work :
         /\ req[r].op \in {"calendar", "mail"} /\ req[r].note = {n}
         /\ n \in notes /\ UNCHANGED <<notes, dnaVars, style, asked>>
         /\ req' = [req EXCEPT ![r] = h]
         /\ \/ h = Nothing
            \/ /\ h.op \in {"calendar", "mail"} /\ h.note = {n}
               /\ h.read = req[r].read
         /\ \/ /\ calendar' = [calendar EXCEPT ![n] = @ \cup {req[r].at}]
               /\ UNCHANGED <<mailed, answered>>
            \/ UNCHANGED planVars
            \/ UNCHANGED calendar
  BY PlanParts
<1>2. HandsInv'
  <2>1. Nothing.op = "idle" /\ Nothing.note = {} /\ Nothing.read = {}
    BY DEF Nothing, Handling
  <2>. QED  BY <1>1, <2>1, HandsKept DEF HandsInv
<1>3. WholeInv'
  BY <1>1, WholeKept DEF TypeInv, dnaVars, planVars
<1>4. TypeInv'
  <2>1. req' \in [Requests -> Work]
    BY <1>1 DEF TypeInv
  <2>2. calendar' \in [Notes -> SUBSET Int]
    <3>1. req[r].at \in Int
      BY DEF TypeInv, Work
    <3>. QED  BY <1>1, <3>1 DEF TypeInv, planVars
  <2>. QED  BY <1>1, <2>1, <2>2 DEF TypeInv, dnaVars
<1>. QED  BY <1>2, <1>3, <1>4

LEMMA BaseExtract ==
    ASSUME BaseInv, NEW r \in Requests, ExtractStep(r) \/ RequestFails(r)
    PROVE  BaseInv'
<1>. USE DEF BaseInv
<1>0. Nothing \in Work /\ Nothing.op = "idle" /\ Nothing.note = {}
      /\ Nothing.read = {}
  BY NothingType DEF Nothing, Handling
<1>1. ASSUME NEW op \in {"extract", "style"}, BeginExtract(r, op)
      PROVE  BaseInv'
  <2> DEFINE h == Handling(op, {}, NoLists, notes, Len(hist), {})
  <2>1. /\ h \in Work /\ h.op \in {"extract", "style"} /\ h.note = {}
        /\ h.read = notes
    BY NothingType DEF TypeInv, Handling, Work
  <2>2. req' = [req EXCEPT ![r] = h]
        /\ UNCHANGED <<notes, dnaVars, style, planVars, asked>>
    BY <1>1 DEF BeginExtract, Becomes
  <2>. HIDE DEF h
  <2>3. HandsInv'
    BY <2>1, <2>2, HandsKept
  <2>4. WholeInv'
    BY <2>2, WholeKept DEF dnaVars, planVars
  <2>5. TypeInv'
    BY <2>1, <2>2 DEF TypeInv, dnaVars, planVars
  <2>. QED  BY <2>3, <2>4, <2>5
<1>2. ASSUME NEW answer \in [Lists -> Replies], CommitExtract(r, answer)
      PROVE  BaseInv'
  <2> DEFINE e == [by |-> "extract", keys |-> Lists, note |-> {},
                   base |-> req[r].at]
  <2>1. e \in Entry /\ hist' = Append(hist, e) /\ e.note = {}
    <3>1. req[r].at \in Int
      BY DEF TypeInv, Work
    <3>. QED  BY <1>2, <3>1 DEF CommitExtract, Wrote, Entry
  <2>. HIDE DEF e
  <2>2. req' = [req EXCEPT ![r] = Nothing]
        /\ UNCHANGED <<notes, style, planVars, asked>>
    BY <1>2 DEF CommitExtract, Becomes
  <2>3. HandsInv'
    BY <1>0, <2>2, HandsKept
  <2>4. /\ DOMAIN hist' = 1..Len(hist)+1
        /\ \A i \in 1..Len(hist) : hist'[i] = hist[i]
        /\ hist'[Len(hist)+1] = e
        /\ DOMAIN hist = 1..Len(hist) /\ Len(hist) \in Nat
    BY <2>1 DEF TypeInv
  <2>5. WholeInv'
    <3>1. \A i \in DOMAIN hist' : hist'[i].note \subseteq notes'
      BY <2>1, <2>2, <2>4 DEF WholeInv
    <3>2. ASSUME NEW m \in notes', asked'[m] # {}
          PROVE  \E i \in DOMAIN hist' : hist'[i].note = {m}
      <4>1. PICK i \in DOMAIN hist : hist[i].note = {m}
        BY <2>2, <3>2 DEF WholeInv
      <4>2. i \in DOMAIN hist' /\ hist'[i].note = {m}
        BY <2>4, <4>1
      <4>. QED  BY <4>2
    <3>. QED  BY <2>2, <3>1, <3>2 DEF WholeInv, EventsFollowNote, planVars
  <2>6. TypeInv'
    <3>1. hist' \in Seq(Entry)
      BY <2>1 DEF TypeInv
    <3>2. \A k \in Lists : Grounded(answer[k], req[r].read) \subseteq Items
      <4>1. req[r].read \subseteq Notes /\ Unsourced \notin req[r].read
        BY WritebackAssumption DEF TypeInv, Work
      <4>. QED  BY <4>1, GroundedItems DEF Items
    <3>3. lists' \in [Lists -> SUBSET Items]
      BY <1>2, <3>2 DEF CommitExtract
    <3>5. cited' \subseteq Notes
      <4>1. \A k \in Lists : lists'[k] \subseteq Notes \cup {Unsourced}
        BY <3>3 DEF Items
      <4>2. cited' = Citations(lists')
        BY <1>2 DEF CommitExtract
      <4>. QED  BY <4>1, <4>2, CitationsAre
    <3>4. version' \in Nat
      BY <1>2 DEF TypeInv, CommitExtract, NextVersion
    <3>. QED  BY <1>0, <2>2, <3>1, <3>3, <3>4, <3>5 DEF TypeInv, planVars
  <2>. QED  BY <2>3, <2>5, <2>6
<1>3. ASSUME NEW answer \in SUBSET Notes, CommitStyle(r, answer)
      PROVE  BaseInv'
  <2>1. req' = [req EXCEPT ![r] = Nothing]
        /\ UNCHANGED <<notes, dnaVars, planVars, asked>>
        /\ style' \in [sources : SUBSET Notes, cited : SUBSET Notes]
    BY <1>3 DEF CommitStyle, Becomes
  <2>2. HandsInv'
    BY <1>0, <2>1, HandsKept
  <2>3. WholeInv'
    BY <2>1, WholeKept DEF dnaVars, planVars
  <2>4. TypeInv'
    BY <1>0, <2>1 DEF TypeInv, dnaVars, planVars
  <2>. QED  BY <2>2, <2>3, <2>4
<1>4. CASE RequestFails(r)
  <2>1. req' = [req EXCEPT ![r] = Nothing]
        /\ UNCHANGED <<notes, dnaVars, style, planVars, asked>>
    BY <1>4 DEF RequestFails, Becomes
  <2>2. HandsInv'
    BY <1>0, <2>1, HandsKept
  <2>3. WholeInv'
    BY <2>1, WholeKept DEF dnaVars, planVars
  <2>4. TypeInv'
    BY <1>0, <2>1 DEF TypeInv, dnaVars, planVars
  <2>. QED  BY <2>2, <2>3, <2>4
<1>. QED  BY <1>1, <1>2, <1>3, <1>4 DEF ExtractStep

LEMMA BaseStep == BaseInv /\ [Next]_vars => BaseInv'
<1>. SUFFICES ASSUME BaseInv, [Next]_vars PROVE BaseInv'
  OBVIOUS
<1>1. ASSUME NEW r \in Requests, CommitStep(r) PROVE BaseInv' \/ Quiet
  BY <1>1, BaseBegin, BaseCommit, BasePlan DEF CommitStep, AskToken, Quiet
<1>2. CASE Quiet
  BY <1>2 DEF BaseInv, TypeInv, HandsInv, WholeInv, EventsFollowNote, Quiet,
              dnaVars, planVars
<1>3. CASE Restart
  <2>1. /\ req' = [r \in Requests |-> Nothing]
        /\ UNCHANGED <<notes, dnaVars, style, planVars, asked>>
    BY <1>3 DEF Restart
  <2>2. Nothing \in Work /\ Nothing.op = "idle" /\ Nothing.note = {}
        /\ Nothing.read = {}
    BY NothingType DEF Nothing, Handling
  <2>3. TypeInv' /\ WholeInv'
    BY <2>1, <2>2 DEF BaseInv, TypeInv, WholeInv, EventsFollowNote, dnaVars,
                      planVars
  <2>4. HandsInv'
    BY <2>1, <2>2 DEF HandsInv
  <2>. QED  BY <2>3, <2>4 DEF BaseInv
<1>4. CASE SignInOutStep \/ UNCHANGED vars
  BY <1>2, <1>4 DEF SignInOutStep, vars, Quiet
<1>. QED  BY <1>1, <1>2, <1>3, <1>4, BaseExtract DEF Next

LEMMA BaseInvariant == Spec => []BaseInv
<1>. QED  BY BaseInit, BaseStep, PTL DEF Spec

(* A note is a whole, for any notes, lists, events and failures.           *)
THEOREM WholeTheorem == Spec => []NoteIsWhole
<1>1. BaseInv => NoteIsWhole
  BY DEF BaseInv, TypeInv, WholeInv, NoteIsWhole, NoteWithDelta
<1>. QED  BY <1>1, BaseInvariant, PTL

-----------------------------------------------------------------------------
(* The DNA row.  Four things happen to it: a commit reads it, a delta is   *)
(* merged, an extraction replaces it, or it stays.                         *)

NoneBegins == \A s \in Requests : req'[s].op = "commit" => req'[s] = req[s]

Reads ==
    \E r \in Requests, n \in Notes :
        /\ req' = [req EXCEPT ![r] =
                      Handling("commit", {n}, lists, {}, Len(hist), {})]
        /\ UNCHANGED <<notes, lists, cited, hist, bare>>

Merges(r, n, keys) ==
    /\ req[r].op = "commit" /\ notes' = notes \cup {n} /\ NoneBegins
    /\ lists' = Merged(req[r].seen, keys, {n}) /\ cited' = cited \cup {n}
    /\ Wrote("delta", keys, {n}, req[r].at) /\ UNCHANGED bare

Kept == [Lists -> SUBSET (notes \cup {Unsourced})]

Replaces(answer, base) ==
    /\ lists' = answer /\ cited' = Citations(answer)
    /\ bare' = {k \in Lists : Unsourced \in answer[k]}
    /\ Wrote("extract", Lists, {}, base)
    /\ notes' = notes /\ NoneBegins

Stays ==
    /\ UNCHANGED <<lists, cited, hist, bare>>
    /\ notes \subseteq notes' /\ NoneBegins

LEMMA NoneBeginsIf ==
    ASSUME TypeInv, NEW r \in Requests, NEW h, req' = [req EXCEPT ![r] = h],
           h.op # "commit"
    PROVE  NoneBegins
  BY DEF TypeInv, NoneBegins

LEMMA DnaSteps ==
    ASSUME BaseInv, [Next]_vars
    PROVE  \/ Reads
           \/ \E r \in Requests, n \in Notes, keys \in SUBSET Lists :
                 Merges(r, n, keys)
           \/ \E answer \in Kept, base \in Int :
                 Replaces(answer, base)
           \/ Stays
<1>. USE DEF BaseInv
<1>0. Nothing.op = "idle"
  BY DEF Nothing, Handling
<1>1. ASSUME NEW r \in Requests, NEW n \in Notes, NEW keys \in SUBSET Lists,
             BeginCommit(r, n, keys)
      PROVE  Reads
  BY <1>1 DEF BeginCommit, Becomes, Reads, dnaVars
<1>2. ASSUME NEW r \in Requests, CommitNote(r)
      PROVE  \/ \E n \in Notes, keys \in SUBSET Lists : Merges(r, n, keys)
             \/ Stays
  <2>1. PICK n \in Notes, planned \in Nat :
           /\ req[r].op = "commit" /\ req[r].note = {n}
           /\ notes' = notes \cup {n}
           /\ \/ asked[n] # {} /\ ApplyDelta(r, asked[n])
              \/ asked[n] = {} /\ UNCHANGED dnaVars
           /\ req' = [req EXCEPT ![r] =
                         Handling("calendar", {n}, NoLists, {}, planned, {})]
    BY <1>2, CommitParts
  <2>2. NoneBegins
    <3>1. Handling("calendar", {n}, NoLists, {}, planned, {}).op # "commit"
      BY DEF Handling
    <3>. QED  BY <2>1, <3>1, NoneBeginsIf
  <2>3. asked[n] \in SUBSET Lists
    BY DEF TypeInv
  <2>4. CASE ApplyDelta(r, asked[n])
    BY <2>1, <2>2, <2>3, <2>4 DEF ApplyDelta, Merges
  <2>5. CASE UNCHANGED dnaVars
    BY <2>1, <2>2, <2>5 DEF dnaVars, Stays
  <2>. QED  BY <2>1, <2>4, <2>5
<1>3. ASSUME NEW r \in Requests,
             \/ CreateEvent(r) \/ EventFails(r) \/ NotSignedIn(r)
             \/ EventsTried(r) \/ \E sent \in BOOLEAN : Confirm(r, sent)
      PROVE  Stays
  <2>1. PICK h \in Work :
           /\ UNCHANGED <<notes, dnaVars>> /\ req' = [req EXCEPT ![r] = h]
           /\ h = Nothing \/ h.op \in {"calendar", "mail"}
    BY <1>3, PlanParts
  <2>. QED  BY <1>0, <2>1, NoneBeginsIf DEF dnaVars, Stays
<1>4. ASSUME NEW r \in Requests, NEW op \in {"extract", "style"},
             BeginExtract(r, op)
      PROVE  Stays
  <2>1. Handling(op, {}, NoLists, notes, Len(hist), {}).op # "commit"
    BY DEF Handling
  <2>. QED  BY <1>4, <2>1, NoneBeginsIf
            DEF BeginExtract, Becomes, dnaVars, Stays
<1>5. ASSUME NEW r \in Requests, NEW answer \in [Lists -> Replies],
             CommitExtract(r, answer)
      PROVE  \E a \in Kept, base \in Int :
                Replaces(a, base)
  <2> DEFINE a == [k \in Lists |-> Grounded(answer[k], req[r].read)]
  <2>1. /\ req[r].read \subseteq notes /\ req[r].at \in Int
        /\ Unsourced \notin req[r].read
    BY WritebackAssumption DEF TypeInv, HandsInv, Work
  <2>2. a \in Kept
    BY <2>1, GroundedItems DEF Kept
  <2>3. NoneBegins
    BY <1>0, <1>5, NoneBeginsIf DEF CommitExtract, Becomes
  <2>4. lists' = a /\ cited' = Citations(a)
    BY <1>5 DEF CommitExtract
  <2>5. bare' = {k \in Lists : Unsourced \in a[k]}
    <3>1. \A k \in Lists : Unsourced \in a[k] <=> ~(answer[k] \subseteq req[r].read)
      BY <2>1, GroundedItems
    <3>. QED  BY <1>5, <3>1 DEF CommitExtract
  <2>. HIDE DEF a
  <2>6. Replaces(a, req[r].at)
    BY <1>5, <2>3, <2>4, <2>5 DEF CommitExtract, Replaces
  <2>. QED  BY <2>1, <2>2, <2>6
<1>6. ASSUME NEW r \in Requests, NEW answer \in SUBSET Notes,
             CommitStyle(r, answer)
      PROVE  Stays
  BY <1>0, <1>6, NoneBeginsIf DEF CommitStyle, Becomes, dnaVars, Stays
<1>7. ASSUME NEW r \in Requests, RequestFails(r) PROVE Stays
  BY <1>0, <1>7, NoneBeginsIf DEF RequestFails, Becomes, dnaVars, Stays
<1>8. CASE Restart
  BY <1>0, <1>8 DEF Restart, dnaVars, Stays, NoneBegins
<1>9. CASE SignInOutStep \/ UNCHANGED vars
  BY <1>9 DEF SignInOutStep, vars, dnaVars, Stays, NoneBegins
<1>10. ASSUME NEW r \in Requests, AskToken(r) PROVE Stays
  BY <1>10 DEF AskToken, dnaVars, Stays, NoneBegins
<1>11. ASSUME NEW r \in Requests, CommitStep(r)
       PROVE  \/ Reads
              \/ \E n \in Notes, keys \in SUBSET Lists : Merges(r, n, keys)
              \/ Stays
  BY <1>1, <1>2, <1>3, <1>10, <1>11 DEF CommitStep
<1>12. ASSUME NEW r \in Requests, ExtractStep(r)
       PROVE  \/ Stays
              \/ \E a \in Kept, base \in Int :
                    Replaces(a, base)
  BY <1>4, <1>5, <1>6, <1>12 DEF ExtractStep
<1>. QED  BY <1>7, <1>8, <1>9, <1>11, <1>12 DEF Next

(* Written over: an entry after i, up to position last, has replaced list  *)
(* k knowing nothing of entry i.                                           *)
Lost(h, i, k, last) ==
    \E j \in i+1..last : /\ k \in h[j].keys
                         /\ h[j].by = "extract" \/ h[j].base < i

(* What a commit has read is what the lists were at its position: it has   *)
(* the items of the entries up to there, or they were lost by then.        *)
SeenInv ==
    \A r \in Requests : req[r].op = "commit" =>
        /\ req[r].at \in 0..Len(hist)
        /\ \A i \in 1..req[r].at : hist[i].by = "delta" =>
              \A k \in hist[i].keys :
                 \/ hist[i].note \subseteq req[r].seen[k]
                 \/ Lost(hist, i, k, req[r].at)

ListsInv ==
    \A i \in DOMAIN hist : hist[i].by = "delta" =>
        \A k \in hist[i].keys :
           hist[i].note \subseteq lists[k] \/ Lost(hist, i, k, Len(hist))

HistInv == SeenInv /\ ListsInv

(* One more entry.                                                         *)
LEMMA Appended ==
    ASSUME TypeInv, NEW e \in Entry, hist' = Append(hist, e)
    PROVE  /\ Len(hist) \in Nat /\ DOMAIN hist = 1..Len(hist)
           /\ Len(hist') = Len(hist) + 1 /\ DOMAIN hist' = 1..Len(hist)+1
           /\ \A i \in 1..Len(hist) : hist'[i] = hist[i]
           /\ hist'[Len(hist)+1] = e
           /\ \A i \in DOMAIN hist' : /\ hist'[i] \in Entry
                                     /\ hist'[i].keys \subseteq Lists
<1>1. /\ Len(hist) \in Nat /\ DOMAIN hist = 1..Len(hist)
      /\ Len(hist') = Len(hist) + 1 /\ DOMAIN hist' = 1..Len(hist)+1
      /\ \A i \in 1..Len(hist) : hist'[i] = hist[i]
      /\ hist'[Len(hist)+1] = e
      /\ hist' \in Seq(Entry)
  BY DEF TypeInv
<1>2. \A i \in DOMAIN hist' : hist'[i] \in Entry
  BY <1>1
<1>3. \A x \in Entry : x.keys \subseteq Lists
  BY DEF Entry
<1>. QED  BY <1>1, <1>2, <1>3

LEMMA LostKept ==
    ASSUME TypeInv, NEW e \in Entry, hist' = Append(hist, e),
           NEW i \in 1..Len(hist), NEW k \in Lists,
           NEW last \in 0..Len(hist), Lost(hist, i, k, last)
    PROVE  Lost(hist', i, k, last)
<1>1. PICK j \in i+1..last : /\ k \in hist[j].keys
                             /\ hist[j].by = "extract" \/ hist[j].base < i
  BY DEF Lost
<1>2. j \in 1..Len(hist) /\ hist'[j] = hist[j]
  BY Appended
<1>. QED  BY <1>1, <1>2 DEF Lost

LEMMA SeenAppended ==
    ASSUME TypeInv, SeenInv, NEW e \in Entry, hist' = Append(hist, e), NoneBegins
    PROVE  SeenInv'
<1>1. SUFFICES ASSUME NEW r \in Requests, req[r].op = "commit", req'[r] = req[r]
               PROVE  /\ req[r].at \in 0..Len(hist')
                      /\ \A i \in 1..req[r].at : hist'[i].by = "delta" =>
                           \A k \in hist'[i].keys :
                              \/ hist'[i].note \subseteq req[r].seen[k]
                              \/ Lost(hist', i, k, req[r].at)
  BY DEF SeenInv, NoneBegins
<1>2. req[r].at \in 0..Len(hist) /\ req[r].at \in 0..Len(hist')
  BY <1>1, Appended DEF SeenInv
<1>3. ASSUME NEW i \in 1..req[r].at, hist'[i].by = "delta",
             NEW k \in hist'[i].keys
      PROVE  \/ hist'[i].note \subseteq req[r].seen[k]
             \/ Lost(hist', i, k, req[r].at)
  <2>1. i \in 1..Len(hist) /\ hist'[i] = hist[i]
    BY <1>2, Appended
  <2>2. k \in Lists
    BY <1>2, <1>3, <2>1, Appended
  <2>3. hist[i].note \subseteq req[r].seen[k] \/ Lost(hist, i, k, req[r].at)
    BY <1>1, <1>3, <2>1 DEF SeenInv
  <2>4. Lost(hist, i, k, req[r].at) => Lost(hist', i, k, req[r].at)
    BY <1>2, <2>1, <2>2, LostKept
  <2>. QED  BY <2>1, <2>3, <2>4
<1>. QED  BY <1>2, <1>3

LEMMA HistInit == Init => HistInv
<1>. SUFFICES ASSUME Init PROVE HistInv
  OBVIOUS
<1>1. SeenInv
  BY DEF Init, SeenInv, Nothing, Handling
<1>2. ListsInv
  BY DEF Init, ListsInv
<1>. QED  BY <1>1, <1>2 DEF HistInv

LEMMA HistStep == BaseInv /\ HistInv /\ [Next]_vars => HistInv'
<1>. SUFFICES ASSUME BaseInv, HistInv, [Next]_vars PROVE HistInv'
  OBVIOUS
<1>. USE DEF BaseInv, HistInv
<1>1. CASE Reads
  <2>1. PICK r \in Requests, n \in Notes :
           /\ req' = [req EXCEPT ![r] =
                         Handling("commit", {n}, lists, {}, Len(hist), {})]
           /\ UNCHANGED <<lists, hist>>
    BY <1>1 DEF Reads
  <2>2. ListsInv'
    BY <2>1 DEF ListsInv, Lost
  <2>3. ASSUME NEW s \in Requests, req'[s].op = "commit"
        PROVE  /\ req'[s].at \in 0..Len(hist)
               /\ \A i \in 1..req'[s].at : hist[i].by = "delta" =>
                    \A k \in hist[i].keys :
                       \/ hist[i].note \subseteq req'[s].seen[k]
                       \/ Lost(hist, i, k, req'[s].at)
    <3>1. CASE s = r
      <4>1. req'[s].at = Len(hist) /\ req'[s].seen = lists
        BY <2>1, <3>1 DEF TypeInv, Handling
      <4>2. Len(hist) \in Nat /\ DOMAIN hist = 1..Len(hist)
        BY DEF TypeInv
      <4>. QED  BY <4>1, <4>2 DEF ListsInv
    <3>2. CASE s # r
      <4>1. req'[s] = req[s]
        BY <2>1, <3>2 DEF TypeInv
      <4>. QED  BY <2>3, <4>1 DEF SeenInv
    <3>. QED  BY <3>1, <3>2
  <2>4. hist' = hist
    BY <2>1
  <2>5. SeenInv'
    BY <2>3, <2>4 DEF SeenInv
  <2>. QED  BY <2>2, <2>5
<1>2. ASSUME NEW r \in Requests, NEW n \in Notes, NEW keys \in SUBSET Lists,
             Merges(r, n, keys)
      PROVE  HistInv'
  <2> DEFINE e == [by |-> "delta", keys |-> keys, note |-> {n},
                   base |-> req[r].at]
  <2>1. e \in Entry /\ hist' = Append(hist, e)
    <3>1. req[r].at \in Int
      BY DEF TypeInv, Work
    <3>. QED  BY <1>2, <3>1 DEF Merges, Wrote, Entry
  <2>2. e.by = "delta" /\ e.keys = keys /\ e.note = {n} /\ e.base = req[r].at
    OBVIOUS
  <2>. HIDE DEF e
  <2>3. SeenInv'
    BY <1>2, <2>1, SeenAppended DEF Merges
  <2>4. req[r].op = "commit" /\ req[r].at \in 0..Len(hist)
    BY <1>2 DEF Merges, SeenInv
  <2>5. \A k \in Lists : lists'[k] = IF k \in keys THEN req[r].seen[k] \cup {n}
                                    ELSE lists[k]
    BY <1>2 DEF Merges, Merged
  <2>6. ASSUME NEW i \in DOMAIN hist', hist'[i].by = "delta",
               NEW k \in hist'[i].keys
        PROVE  hist'[i].note \subseteq lists'[k] \/ Lost(hist', i, k, Len(hist))
                  \/ Lost(hist', i, k, Len(hist) + 1)
    <3>1. CASE i = Len(hist) + 1
      BY <2>1, <2>2, <2>5, <2>6, <3>1, Appended
    <3>2. CASE i \in 1..Len(hist)
      <4>1. hist'[i] = hist[i] /\ i \in DOMAIN hist /\ k \in Lists
        BY <2>1, <2>6, <3>2, Appended
      <4>2. Len(hist) \in Nat
        BY DEF TypeInv
      <4>3. CASE k \notin keys
        <5>1. hist[i].note \subseteq lists[k] \/ Lost(hist, i, k, Len(hist))
          BY <2>6, <4>1 DEF ListsInv
        <5>2. Lost(hist, i, k, Len(hist)) => Lost(hist', i, k, Len(hist))
          BY <2>1, <3>2, <4>1, <4>2, LostKept
        <5>. QED  BY <2>5, <4>1, <4>3, <5>1, <5>2
      <4>4. CASE k \in keys /\ i <= req[r].at
        <5>1. i \in 1..req[r].at
          BY <2>4, <3>2, <4>2, <4>4
        <5>2. hist[i].note \subseteq req[r].seen[k] \/ Lost(hist, i, k, req[r].at)
          BY <2>4, <2>6, <4>1, <5>1 DEF SeenInv
        <5>3. ASSUME Lost(hist, i, k, req[r].at) PROVE Lost(hist, i, k, Len(hist))
          BY <2>4, <4>2, <5>3 DEF Lost
        <5>4. Lost(hist, i, k, Len(hist)) => Lost(hist', i, k, Len(hist))
          BY <2>1, <3>2, <4>1, <4>2, LostKept
        <5>. QED  BY <2>5, <4>1, <4>4, <5>2, <5>3, <5>4
      <4>5. CASE k \in keys /\ ~(i <= req[r].at)
        <5>1. Len(hist) + 1 \in i+1..Len(hist)+1 /\ req[r].at < i
          BY <2>4, <3>2, <4>2, <4>5
        <5>2. hist'[Len(hist)+1] = e
          BY <2>1, Appended
        <5>3. Lost(hist', i, k, Len(hist) + 1)
          BY <2>2, <4>5, <5>1, <5>2 DEF Lost
        <5>. QED  BY <5>3
      <4>. QED  BY <4>3, <4>4, <4>5
    <3>. QED  BY <2>1, <3>1, <3>2, Appended
  <2>7. ListsInv'
    <3>1. Len(hist') = Len(hist) + 1 /\ Len(hist) \in Nat
      BY <2>1, Appended
    <3>2. ASSUME NEW i \in DOMAIN hist', NEW k \in Lists,
                 Lost(hist', i, k, Len(hist)) \/ Lost(hist', i, k, Len(hist) + 1)
          PROVE  Lost(hist', i, k, Len(hist'))
      BY <3>1, <3>2, <2>1, Appended DEF Lost
    <3>3. \A i \in DOMAIN hist' : hist'[i].keys \subseteq Lists
      BY <2>1, Appended
    <3>. QED  BY <2>6, <3>2, <3>3 DEF ListsInv
  <2>. QED  BY <2>3, <2>7
<1>3. ASSUME NEW answer \in Kept, NEW base \in Int,
             Replaces(answer, base)
      PROVE  HistInv'
  <2> DEFINE e == [by |-> "extract", keys |-> Lists, note |-> {},
                   base |-> base]
  <2>1. e \in Entry /\ hist' = Append(hist, e)
    BY <1>3 DEF Replaces, Wrote, Entry
  <2>2. e.by = "extract" /\ e.keys = Lists
    OBVIOUS
  <2>. HIDE DEF e
  <2>3. SeenInv'
    BY <1>3, <2>1, SeenAppended DEF Replaces
  <2>4. Len(hist') = Len(hist) + 1 /\ Len(hist) \in Nat
        /\ hist'[Len(hist)+1] = e /\ DOMAIN hist' = 1..Len(hist)+1
    BY <2>1, Appended
  <2>5. ASSUME NEW i \in DOMAIN hist', hist'[i].by = "delta",
               NEW k \in hist'[i].keys
        PROVE  Lost(hist', i, k, Len(hist'))
    <3>1. i \in 1..Len(hist) /\ k \in Lists
      <4>1. hist'[i].keys \subseteq Lists
        BY <2>1, Appended
      <4>. QED  BY <2>2, <2>4, <2>5, <4>1
    <3>2. Len(hist) + 1 \in i+1..Len(hist')
      BY <2>4, <3>1
    <3>. QED  BY <2>2, <2>4, <3>1, <3>2 DEF Lost
  <2>6. ListsInv'
    BY <2>5 DEF ListsInv
  <2>. QED  BY <2>3, <2>6
<1>4. CASE Stays
  BY <1>4 DEF Stays, NoneBegins, SeenInv, ListsInv, Lost
<1>. QED  BY <1>1, <1>2, <1>3, <1>4, DnaSteps

LEMMA HistInvariant == Spec => [](BaseInv /\ HistInv)
<1>. QED  BY BaseInit, BaseStep, HistInit, HistStep, PTL DEF Spec

(* No delta to another list ever undoes an approved item.                  *)
THEOREM LostTheorem == Spec => []LostToSameList
<1>1. ASSUME HistInv, NEW i \in DOMAIN hist, hist[i].by = "delta",
             NEW k \in hist[i].keys
      PROVE  \/ hist[i].note \subseteq lists[k]
             \/ \E j \in i+1..Len(hist) :
                   /\ k \in hist[j].keys
                   /\ hist[j].by = "extract" \/ hist[j].base < i
  <2>1. hist[i].note \subseteq lists[k] \/ Lost(hist, i, k, Len(hist))
    BY <1>1 DEF HistInv, ListsInv
  <2>. QED  BY <2>1 DEF Lost
<1>2. HistInv => LostToSameList
  BY <1>1 DEF LostToSameList
<1>. QED  BY <1>2, HistInvariant, PTL

-----------------------------------------------------------------------------
(* Sources.  The items of a list are notes that are cited, until a delta   *)
(* has overlapped an extraction; a commit that read cited items still has  *)
(* them, or an extraction came after its reading.                          *)
Extracted(h, from, to) == \E i \in from+1..to : h[i].by = "extract"

Sourced(l) ==
    /\ \A k \in Lists : l[k] \subseteq cited \cup {Unsourced}
    /\ \A k \in Lists : Unsourced \in l[k] <=> k \in bare

ItemsInv ==
    /\ \A k \in Lists : lists[k] \subseteq notes \cup {Unsourced}
    /\ Sourced(lists) \/ OverlappedExtraction
    /\ \A r \in Requests : req[r].op = "commit" =>
          /\ \A k \in Lists : req[r].seen[k] \subseteq notes \cup {Unsourced}
          /\ \/ Sourced(req[r].seen)
             \/ Extracted(hist, req[r].at, Len(hist))
             \/ OverlappedExtraction
    /\ \A i \in DOMAIN hist : hist[i].by = "delta" => hist[i].base \in Nat

LEMMA OverlapStays ==
    ASSUME BaseInv, ItemsInv, NEW e \in Entry, hist' = Append(hist, e),
           OverlappedExtraction
    PROVE  OverlappedExtraction'
<1>0. PICK j \in DOMAIN hist :
         /\ hist[j].by = "delta"
         /\ \E i \in hist[j].base+1..j-1 : hist[i].by = "extract"
  BY DEF OverlappedExtraction
<1>1. PICK i \in hist[j].base+1..j-1 : hist[i].by = "extract"
  BY <1>0
<1>2. hist[j].base \in Nat /\ j \in 1..Len(hist)
  BY <1>0, Appended DEF BaseInv, ItemsInv
<1>3. i \in 1..Len(hist)
  BY <1>1, <1>2, Appended DEF BaseInv
<1>4. hist'[j] = hist[j] /\ hist'[i] = hist[i] /\ j \in DOMAIN hist'
  BY <1>2, <1>3, Appended DEF BaseInv
<1>5. hist'[j].by = "delta" /\ i \in hist'[j].base+1..j-1
        /\ hist'[i].by = "extract"
  BY <1>0, <1>1, <1>4
<1>. QED  BY <1>4, <1>5 DEF OverlappedExtraction

LEMMA ExtractedStays ==
    ASSUME TypeInv, NEW e \in Entry, hist' = Append(hist, e),
           NEW at \in Nat, Extracted(hist, at, Len(hist))
    PROVE  Extracted(hist', at, Len(hist'))
<1>1. PICK i \in at+1..Len(hist) : hist[i].by = "extract"
  BY DEF Extracted
<1>2. i \in 1..Len(hist) /\ i \in at+1..Len(hist') /\ hist'[i] = hist[i]
  BY Appended
<1>. QED  BY <1>1, <1>2 DEF Extracted

LEMMA ItemsInit == Init => ItemsInv
<1>. SUFFICES ASSUME Init PROVE ItemsInv
  OBVIOUS
<1>1. Unsourced \notin Imported
  BY WritebackAssumption
<1>4. Sourced(lists) /\ \A k \in Lists : lists[k] \subseteq notes
  BY <1>1 DEF Init, NoLists, Sourced
<1>2. \A i \in DOMAIN hist : hist[i].by # "delta"
  BY DEF Init
<1>3. \A r \in Requests : req[r].op # "commit"
  BY DEF Init, Nothing, Handling
<1>. QED  BY <1>2, <1>3, <1>4 DEF ItemsInv

LEMMA ItemsStep == BaseInv /\ HistInv /\ ItemsInv /\ [Next]_vars => ItemsInv'
<1>. SUFFICES ASSUME BaseInv, HistInv, ItemsInv, [Next]_vars PROVE ItemsInv'
  OBVIOUS
<1>. USE DEF BaseInv
<1>0. Len(hist) \in Nat
  BY DEF TypeInv
<1>1. CASE Reads
  <2>1. PICK r \in Requests, n \in Notes :
           /\ req' = [req EXCEPT ![r] =
                         Handling("commit", {n}, lists, {}, Len(hist), {})]
           /\ UNCHANGED <<notes, lists, cited, hist, bare>>
    BY <1>1 DEF Reads
  <2>2. OverlappedExtraction' <=> OverlappedExtraction
    BY <2>1 DEF OverlappedExtraction
  <2>3. ASSUME NEW s \in Requests, req'[s].op = "commit"
        PROVE  /\ \A k \in Lists : req'[s].seen[k]
                                       \subseteq notes \cup {Unsourced}
               /\ \/ Sourced(req'[s].seen)
                  \/ Extracted(hist, req'[s].at, Len(hist))
                  \/ OverlappedExtraction
    <3>1. CASE s = r
      <4>1. req'[s].seen = lists
        BY <2>1, <3>1 DEF TypeInv, Handling
      <4>. QED  BY <4>1 DEF ItemsInv
    <3>2. CASE s # r
      <4>1. req'[s] = req[s]
        BY <2>1, <3>2 DEF TypeInv
      <4>. QED  BY <2>3, <4>1 DEF ItemsInv
    <3>. QED  BY <3>1, <3>2
  <2>4. /\ hist' = hist /\ lists' = lists /\ cited' = cited /\ notes' = notes
        /\ bare' = bare
    BY <2>1
  <2>. QED  BY <2>2, <2>3, <2>4 DEF ItemsInv, Sourced
<1>2. ASSUME NEW r \in Requests, NEW n \in Notes, NEW keys \in SUBSET Lists,
             Merges(r, n, keys)
      PROVE  ItemsInv'
  <2> DEFINE e == [by |-> "delta", keys |-> keys, note |-> {n},
                   base |-> req[r].at]
  <2>1. e \in Entry /\ hist' = Append(hist, e)
    <3>1. req[r].at \in Int
      BY DEF TypeInv, Work
    <3>. QED  BY <1>2, <3>1 DEF Merges, Wrote, Entry
  <2>2. e.by = "delta" /\ e.base = req[r].at
    OBVIOUS
  <2>. HIDE DEF e
  <2>3. /\ req[r].op = "commit" /\ req[r].at \in Nat /\ notes' = notes \cup {n}
        /\ cited' = cited \cup {n} /\ bare' = bare /\ NoneBegins
    BY <1>0, <1>2 DEF Merges, HistInv, SeenInv
  <2>4. \A k \in Lists : lists'[k] \in {req[r].seen[k] \cup {n}, lists[k]}
    BY <1>2 DEF Merges, Merged
  <2>5. \A k \in Lists : lists'[k] \subseteq notes' \cup {Unsourced}
    BY <2>3, <2>4 DEF ItemsInv
  <2>6. OverlappedExtraction => OverlappedExtraction'
    BY <2>1, OverlapStays
  <2>7. Extracted(hist, req[r].at, Len(hist)) => OverlappedExtraction'
    <3>1. SUFFICES ASSUME NEW i \in req[r].at+1..Len(hist),
                          hist[i].by = "extract"
                   PROVE  OverlappedExtraction'
      BY DEF Extracted
    <3>2. i \in 1..Len(hist)
      BY <1>0, <2>3
    <3>3. /\ Len(hist)+1 \in DOMAIN hist' /\ hist'[Len(hist)+1] = e
          /\ hist'[i] = hist[i] /\ (Len(hist)+1)-1 = Len(hist)
      BY <1>0, <2>1, <3>2, Appended
    <3>4. i \in e.base+1..(Len(hist)+1)-1
      BY <2>2, <3>1, <3>3
    <3>. QED  BY <2>2, <3>1, <3>3, <3>4 DEF OverlappedExtraction
  <2>8. Sourced(lists)' \/ OverlappedExtraction'
    <3>1. n # Unsourced
      BY WritebackAssumption
    <3>2. Sourced(lists) /\ Sourced(req[r].seen) => Sourced(lists)'
      BY <2>3, <2>4, <3>1 DEF Sourced
    <3>. QED  BY <2>3, <2>6, <2>7, <3>2 DEF ItemsInv
  <2>9. ASSUME NEW s \in Requests, req'[s].op = "commit"
        PROVE  /\ \A k \in Lists : req'[s].seen[k]
                                       \subseteq notes' \cup {Unsourced}
               /\ \/ Sourced(req[s].seen)'
                  \/ Extracted(hist', req'[s].at, Len(hist'))
                  \/ OverlappedExtraction'
    <3>1. req'[s] = req[s]
      BY <2>3, <2>9 DEF NoneBegins
    <3>2. req[s].at \in Nat
      BY <1>0, <2>9, <3>1 DEF HistInv, SeenInv
    <3>3. Extracted(hist, req[s].at, Len(hist))
             => Extracted(hist', req[s].at, Len(hist'))
      BY <2>1, <3>2, ExtractedStays
    <3>4. Sourced(req[s].seen) => Sourced(req[s].seen)'
      BY <2>3, <3>1 DEF Sourced
    <3>. QED  BY <2>3, <2>6, <2>9, <3>1, <3>3, <3>4 DEF ItemsInv
  <2>10. \A i \in DOMAIN hist' : hist'[i].by = "delta" => hist'[i].base \in Nat
    BY <2>1, <2>2, <2>3, Appended DEF ItemsInv
  <2>. QED  BY <2>5, <2>8, <2>9, <2>10 DEF ItemsInv
<1>3. ASSUME NEW answer \in Kept, NEW base \in Int,
             Replaces(answer, base)
      PROVE  ItemsInv'
  <2> DEFINE e == [by |-> "extract", keys |-> Lists, note |-> {},
                   base |-> base]
  <2>1. e \in Entry /\ hist' = Append(hist, e)
    BY <1>3 DEF Replaces, Wrote, Entry
  <2>2. e.by = "extract"
    OBVIOUS
  <2>. HIDE DEF e
  <2>3. /\ lists' = answer /\ cited' = Citations(answer)
        /\ bare' = {k \in Lists : Unsourced \in answer[k]}
        /\ notes' = notes /\ NoneBegins
    BY <1>3 DEF Replaces
  <2>4. /\ Sourced(lists)'
        /\ \A k \in Lists : lists'[k] \subseteq notes' \cup {Unsourced}
    <3>1. \A k \in Lists : answer[k] \subseteq notes \cup {Unsourced}
      BY DEF Kept
    <3>2. \A k \in Lists : answer[k] \subseteq Citations(answer) \cup {Unsourced}
      BY <3>1, CitationsAre
    <3>3. \A k \in Lists : Unsourced \in answer[k] <=> k \in bare'
      BY <2>3
    <3>. QED  BY <2>3, <3>1, <3>2, <3>3 DEF Sourced
  <2>5. ASSUME NEW s \in Requests, req'[s].op = "commit"
        PROVE  /\ \A k \in Lists : req'[s].seen[k]
                                       \subseteq notes' \cup {Unsourced}
               /\ Extracted(hist', req'[s].at, Len(hist'))
    <3>1. req'[s] = req[s]
      BY <2>3, <2>5 DEF NoneBegins
    <3>2. req[s].at \in 0..Len(hist)
      BY <2>5, <3>1 DEF HistInv, SeenInv
    <3>3. Len(hist)+1 \in req[s].at+1..Len(hist') /\ hist'[Len(hist)+1] = e
      BY <1>0, <2>1, <3>2, Appended
    <3>. QED  BY <2>2, <2>3, <2>5, <3>1, <3>3 DEF Extracted, ItemsInv
  <2>6. \A i \in DOMAIN hist' : hist'[i].by = "delta" => hist'[i].base \in Nat
    BY <2>1, <2>2, Appended DEF ItemsInv
  <2>. QED  BY <2>4, <2>5, <2>6 DEF ItemsInv
<1>4. CASE Stays
  <2>1. /\ hist' = hist /\ lists' = lists /\ cited' = cited /\ bare' = bare
        /\ notes \subseteq notes' /\ NoneBegins
    BY <1>4 DEF Stays
  <2>2. OverlappedExtraction' <=> OverlappedExtraction
    BY <2>1 DEF OverlappedExtraction
  <2>3. \A s \in Requests : req'[s].op = "commit" => req'[s] = req[s]
    BY <2>1 DEF NoneBegins
  <2>. QED  BY <2>1, <2>2, <2>3 DEF ItemsInv, Sourced
<1>. QED  BY <1>1, <1>2, <1>3, <1>4, DnaSteps

(* The style profile has its sources, whatever the DNA does.               *)
LEMMA StyleStep ==
    BaseInv /\ StyleTraceable /\ [Next]_vars => StyleTraceable'
<1>. SUFFICES ASSUME BaseInv, StyleTraceable, [Next]_vars
              PROVE  StyleTraceable'
  OBVIOUS
<1>1. CASE style' = style /\ notes \subseteq notes'
  BY <1>1 DEF StyleTraceable
<1>2. ASSUME NEW r \in Requests, NEW answer \in SUBSET Notes,
             CommitStyle(r, answer)
      PROVE  StyleTraceable'
  BY <1>2 DEF CommitStyle, StyleTraceable, BaseInv, HandsInv
<1>3. ASSUME NEW r \in Requests, CommitStep(r)
      PROVE  style' = style /\ notes \subseteq notes'
  BY <1>3 DEF CommitStep, BeginCommit, CommitNote, AskToken, CreateEvent,
              EventFails, NotSignedIn, EventsTried, Confirm
<1>4. ASSUME NEW r \in Requests, ExtractStep(r) \/ RequestFails(r)
      PROVE  \/ style' = style /\ notes \subseteq notes'
             \/ \E answer \in SUBSET Notes : CommitStyle(r, answer)
  BY <1>4 DEF ExtractStep, BeginExtract, CommitExtract, RequestFails
<1>5. CASE SignInOutStep \/ Restart \/ UNCHANGED vars
  BY <1>1, <1>5 DEF SignInOutStep, Restart, vars
<1>. QED  BY <1>1, <1>2, <1>3, <1>4, <1>5 DEF Next

(* What the product says of a client has its source in a note.             *)
THEOREM SourcesTheorem == Spec => []SourcesStand
<1>1. Init => StyleTraceable
  BY DEF Init, StyleTraceable
<1>2. BaseInv /\ ItemsInv /\ StyleTraceable => SourcesStand
  BY DEF BaseInv, TypeInv, ItemsInv, Sourced, SourcesStand, ItemsTraceable,
         Sources
<1>. QED  BY <1>1, <1>2, BaseInit, BaseStep, HistInit, HistStep, ItemsInit,
             ItemsStep, StyleStep, PTL DEF Spec

-----------------------------------------------------------------------------
(* Reports.  A note in the hands of its calendar part has the events that  *)
(* were made and no answer yet; a note that is not in the CRM has nothing. *)
ReportInv ==
    /\ \A r \in Requests, n \in Notes :
          req[r].op \in {"calendar", "mail"} /\ req[r].note = {n} =>
             /\ req[r].made \subseteq calendar[n]
             /\ answered[n] = 0 - 1 /\ mailed[n] = {}
    /\ \A n \in Notes \ notes :
          calendar[n] = {} /\ answered[n] = 0 - 1 /\ mailed[n] = {}
    /\ \A n \in Notes : IsFiniteSet(calendar[n])
    /\ answered \in [Notes -> Int] /\ mailed \in [Notes -> SUBSET Int]
    /\ ReportIsTrue

LEMMA ReportInit == Init => ReportInv
<1>. SUFFICES ASSUME Init PROVE ReportInv
  OBVIOUS
<1>1. \A n \in Notes : /\ calendar[n] = {} /\ answered[n] = 0 - 1
                       /\ mailed[n] = {}
  BY DEF Init
<1>2. answered \in [Notes -> Int] /\ mailed \in [Notes -> SUBSET Int]
  BY DEF Init
<1>3. \A r \in Requests : req[r].op = "idle"
  BY DEF Init, Nothing, Handling
<1>4. IsFiniteSet({}) /\ Cardinality({}) = 0
  BY FS_EmptySet
<1>5. ReportIsTrue
  BY <1>1, <1>4 DEF ReportIsTrue
<1>. QED  BY <1>1, <1>2, <1>3, <1>4, <1>5 DEF ReportInv

LEMMA ReportPlan ==
    ASSUME BaseInv, ReportInv, NEW r \in Requests,
           \/ CreateEvent(r) \/ EventFails(r) \/ NotSignedIn(r) \/ EventsTried(r)
           \/ \E sent \in BOOLEAN : Confirm(r, sent)
    PROVE  ReportInv'
<1>1. PICK n \in Notes, h \in Work :
         /\ req[r].op \in {"calendar", "mail"} /\ req[r].note = {n}
         /\ n \in notes /\ UNCHANGED <<notes, dnaVars, style, asked>>
         /\ req' = [req EXCEPT ![r] = h]
         /\ \/ h = Nothing
            \/ /\ h.op \in {"calendar", "mail"} /\ h.note = {n}
               /\ h.read = req[r].read
         /\ \/ /\ calendar' = [calendar EXCEPT ![n] = @ \cup {req[r].at}]
               /\ UNCHANGED <<mailed, answered>> /\ h.op # "idle"
               /\ h.made \in {req[r].made, req[r].made \cup {req[r].at}}
            \/ /\ UNCHANGED planVars
               /\ h.op # "idle" /\ h.made = req[r].made
            \/ /\ h = Nothing /\ UNCHANGED calendar
               /\ \/ /\ UNCHANGED mailed
                     /\ \E count \in {0, Cardinality(req[r].made)} :
                           answered' = [answered EXCEPT ![n] = count]
                  \/ /\ mailed' = [mailed EXCEPT ![n] = req[r].made]
                     /\ answered' = [answered EXCEPT
                                        ![n] = Cardinality(req[r].made)]
  BY PlanParts
<1>. USE DEF BaseInv
<1>2. Nothing.op = "idle"
  BY DEF Nothing, Handling
<1>3. /\ req[r].made \subseteq calendar[n] /\ IsFiniteSet(calendar[n])
      /\ answered[n] = 0 - 1 /\ mailed[n] = {}
  BY <1>1 DEF ReportInv
<1>4. /\ Cardinality(req[r].made) \in Nat /\ Cardinality(calendar[n]) \in Nat
      /\ Cardinality(req[r].made) <= Cardinality(calendar[n])
  BY <1>3, FS_Subset, FS_CardinalityType
<1>5. \A s \in Requests \ {r} : req'[s] = req[s] /\ n \notin req[s].note
  BY <1>1 DEF TypeInv, HandsInv
<1>6. req'[r] = h
  BY <1>1 DEF TypeInv
<1>7. CASE /\ calendar' = [calendar EXCEPT ![n] = @ \cup {req[r].at}]
           /\ UNCHANGED <<mailed, answered>> /\ h.op # "idle"
           /\ h.made \in {req[r].made, req[r].made \cup {req[r].at}}
  <2>1. /\ calendar'[n] = calendar[n] \cup {req[r].at}
        /\ \A m \in Notes \ {n} : calendar'[m] = calendar[m]
    BY <1>7 DEF TypeInv
  <2>2. IsFiniteSet(calendar'[n]) /\ Cardinality(calendar'[n]) \in Nat
    <3>1. IsFiniteSet(calendar[n] \cup {req[r].at})
      BY <1>3, FS_AddElement
    <3>. QED  BY <2>1, <3>1, FS_CardinalityType
  <2>3. ReportIsTrue'
    <3>1. 0 - 1 <= Cardinality(calendar'[n])
      BY <2>2
    <3>2. ASSUME NEW m \in Notes
          PROVE  /\ answered'[m] <= Cardinality(calendar'[m])
                 /\ mailed'[m] \subseteq calendar'[m]
                 /\ mailed'[m] # {} => answered'[m] = Cardinality(mailed'[m])
      <4>1. CASE m = n
        BY <1>3, <1>7, <3>1, <4>1
      <4>2. CASE m # n
        BY <1>7, <2>1, <4>2 DEF ReportInv, ReportIsTrue
      <4>. QED  BY <4>1, <4>2
    <3>. QED  BY <3>2 DEF ReportIsTrue
  <2>4. ASSUME NEW s \in Requests, NEW m \in Notes,
               req'[s].op \in {"calendar", "mail"}, req'[s].note = {m}
        PROVE  /\ req'[s].made \subseteq calendar'[m]
               /\ answered'[m] = 0 - 1 /\ mailed'[m] = {}
    <3>1. CASE s = r
      <4>1. req'[s] = h /\ h.note = {n} /\ m = n
        BY <1>1, <1>2, <1>6, <1>7, <2>4, <3>1
      <4>. QED  BY <1>3, <1>7, <2>1, <4>1
    <3>2. CASE s # r
      <4>1. m # n /\ req[s].op = req'[s].op /\ req[s].note = {m}
        BY <1>5, <2>4, <3>2
      <4>. QED  BY <1>5, <1>7, <2>1, <2>4, <3>2, <4>1 DEF ReportInv
    <3>. QED  BY <3>1, <3>2
  <2>5. \A m \in Notes \ notes' :
           calendar'[m] = {} /\ answered'[m] = 0 - 1 /\ mailed'[m] = {}
    BY <1>1, <1>7, <2>1 DEF ReportInv
  <2>6. \A m \in Notes : IsFiniteSet(calendar'[m])
    BY <2>1, <2>2 DEF ReportInv
  <2>. QED  BY <1>7, <2>3, <2>4, <2>5, <2>6 DEF ReportInv
<1>8. CASE UNCHANGED planVars /\ h.op # "idle" /\ h.made = req[r].made
  <2>1. ReportIsTrue'
    BY <1>8 DEF ReportInv, ReportIsTrue, planVars
  <2>. QED  BY <1>1, <1>2, <1>3, <1>5, <1>6, <1>8, <2>1
            DEF ReportInv, planVars
<1>9. CASE /\ h = Nothing /\ UNCHANGED calendar
           /\ \/ /\ UNCHANGED mailed
                 /\ \E count \in {0, Cardinality(req[r].made)} :
                       answered' = [answered EXCEPT ![n] = count]
              \/ /\ mailed' = [mailed EXCEPT ![n] = req[r].made]
                 /\ answered' = [answered EXCEPT
                                    ![n] = Cardinality(req[r].made)]
  <2>1. PICK count \in {0, Cardinality(req[r].made)} :
           /\ answered' = [answered EXCEPT ![n] = count]
           /\ \/ UNCHANGED mailed
              \/ /\ mailed' = [mailed EXCEPT ![n] = req[r].made]
                 /\ count = Cardinality(req[r].made)
    BY <1>9
  <2>2. /\ answered'[n] = count /\ count \in Int
        /\ count <= Cardinality(calendar[n])
        /\ \A m \in Notes \ {n} : answered'[m] = answered[m]
        /\ answered' \in [Notes -> Int]
    BY <1>4, <2>1 DEF ReportInv
  <2>3. /\ \/ mailed'[n] = {}
           \/ mailed'[n] = req[r].made /\ count = Cardinality(req[r].made)
        /\ \A m \in Notes \ {n} : mailed'[m] = mailed[m]
        /\ mailed' \in [Notes -> SUBSET Int]
    <3>1. req[r].made \subseteq Int
      BY DEF TypeInv, Work
    <3>. QED  BY <1>3, <2>1, <3>1 DEF ReportInv
  <2>4. ReportIsTrue'
    BY <1>3, <1>9, <2>2, <2>3 DEF ReportInv, ReportIsTrue
  <2>. QED  BY <1>1, <1>2, <1>5, <1>6, <1>9, <2>2, <2>3, <2>4 DEF ReportInv
<1>. QED  BY <1>1, <1>7, <1>8, <1>9

LEMMA ReportStep == BaseInv /\ ReportInv /\ [Next]_vars => ReportInv'
<1>. SUFFICES ASSUME BaseInv, ReportInv, [Next]_vars PROVE ReportInv'
  OBVIOUS
<1>. USE DEF BaseInv
<1>0. Nothing.op = "idle"
  BY DEF Nothing, Handling
<1>1. CASE /\ UNCHANGED planVars /\ notes' = notes
           /\ \A s \in Requests : \/ req'[s] = req[s]
                                  \/ req'[s].op \notin {"calendar", "mail"}
  <2>1. ReportIsTrue'
    BY <1>1 DEF ReportInv, ReportIsTrue, planVars
  <2>. QED  BY <1>1, <2>1 DEF ReportInv, planVars
<1>2. ASSUME NEW r \in Requests, NEW n \in Notes, NEW keys \in SUBSET Lists,
             BeginCommit(r, n, keys)
      PROVE  ReportInv'
  BY <1>1, <1>2 DEF BeginCommit, Becomes, Handling, TypeInv
<1>3. ASSUME NEW r \in Requests, CommitNote(r) PROVE ReportInv'
  <2>1. PICK n \in Notes, planned \in Nat :
           /\ req[r].op = "commit" /\ req[r].note = {n} /\ n \notin notes
           /\ notes' = notes \cup {n} /\ UNCHANGED planVars
           /\ req' = [req EXCEPT ![r] =
                         Handling("calendar", {n}, NoLists, {}, planned, {})]
    BY <1>3, CommitParts
  <2>2. /\ req'[r].note = {n} /\ req'[r].made = {}
        /\ \A s \in Requests \ {r} : req'[s] = req[s]
    BY <2>1 DEF TypeInv, Handling
  <2>3. ReportIsTrue'
    BY <2>1 DEF ReportInv, ReportIsTrue, planVars
  <2>4. \A s \in Requests \ {r}, m \in Notes :
           req[s].op \in {"calendar", "mail"} /\ req[s].note = {m} => m # n
    BY <2>1 DEF HandsInv
  <2>5. calendar[n] = {} /\ answered[n] = 0 - 1 /\ mailed[n] = {}
    BY <2>1 DEF ReportInv
  <2>6. \A s \in Requests, m \in Notes :
           req'[s].op \in {"calendar", "mail"} /\ req'[s].note = {m} =>
              /\ req'[s].made \subseteq calendar[m]
              /\ answered[m] = 0 - 1 /\ mailed[m] = {}
    <3>1. ASSUME NEW m \in Notes, req'[r].note = {m} PROVE m = n
      BY <2>2, <3>1
    <3>2. ASSUME NEW s \in Requests \ {r}, NEW m \in Notes,
                 req'[s].op \in {"calendar", "mail"}, req'[s].note = {m}
          PROVE  /\ req'[s].made \subseteq calendar[m]
                 /\ answered[m] = 0 - 1 /\ mailed[m] = {}
      BY <2>2, <3>2 DEF ReportInv
    <3>. QED  BY <2>2, <2>5, <3>1, <3>2
  <2>. QED  BY <2>1, <2>3, <2>6 DEF ReportInv, planVars
<1>4. ASSUME NEW r \in Requests, AskToken(r) PROVE ReportInv'
  BY <1>1, <1>4 DEF AskToken
<1>5. ASSUME NEW r \in Requests, CommitStep(r) PROVE ReportInv'
  BY <1>2, <1>3, <1>4, <1>5, ReportPlan DEF CommitStep
<1>6. ASSUME NEW r \in Requests, ExtractStep(r) \/ RequestFails(r)
      PROVE  ReportInv'
  <2>1. ASSUME NEW op \in {"extract", "style"}, BeginExtract(r, op)
        PROVE  ReportInv'
    BY <1>1, <2>1 DEF BeginExtract, Becomes, Handling, TypeInv
  <2>2. CASE \/ \E answer \in [Lists -> Replies] : CommitExtract(r, answer)
             \/ \E answer \in SUBSET Notes : CommitStyle(r, answer)
             \/ RequestFails(r)
    <3>1. /\ UNCHANGED planVars /\ notes' = notes
          /\ req' = [req EXCEPT ![r] = Nothing]
      BY <2>2 DEF CommitExtract, CommitStyle, RequestFails, Becomes
    <3>. QED  BY <1>0, <1>1, <3>1 DEF TypeInv
  <2>. QED  BY <1>6, <2>1, <2>2 DEF ExtractStep
<1>7. CASE SignInOutStep \/ UNCHANGED vars
  BY <1>1, <1>7 DEF SignInOutStep, vars
<1>8. CASE Restart
  BY <1>0, <1>1, <1>8 DEF Restart
<1>. QED  BY <1>5, <1>6, <1>7, <1>8 DEF Next

(* The answer and the confirmation report no event that is not there.      *)
THEOREM ReportTheorem == Spec => []ReportIsTrue
<1>1. ReportInv => ReportIsTrue
  BY DEF ReportInv
<1>. QED  BY <1>1, BaseInit, BaseStep, ReportInit, ReportStep, PTL DEF Spec
=============================================================================
