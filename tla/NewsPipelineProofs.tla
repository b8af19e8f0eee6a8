------------------------- MODULE NewsPipelineProofs -------------------------
(* Theorems about NewsPipeline, for any feed, any clients, any matching    *)
(* and any number of failures.                                             *)
EXTENDS NewsPipeline, TLAPS

(***************************************************************************)
(* The inductive invariant.                                                *)
(***************************************************************************)

(* The poller's batch lies inside what the feed has published.             *)
PollInv ==
    /\ ppc = "push" => pnext \in 1..plast /\ plast >= 1
    /\ ppc = "save" => pnext = plast + 1 /\ plast >= 1

(* What the fan-out holds goes with where it is.                           *)
FanInv ==
    /\ fpc = "idle" <=> fart = 0
    /\ fpc \in {"idle", "index", "filter", "requeue"} => fmatched = {}
    /\ fpc \in {"remember", "emit"} => \E c \in Clients : fclient = {c}
    /\ fpc \notin {"remember", "emit"} => fclient = {}
    /\ fpc = "remember" => fanswer \in {"about", "spurious"}

Covered(a) == Queued(a) \/ fart = a \/ a \in settled \cup refused \cup caught

(* CursorCovers, together with the part of the poller's batch that it has  *)
(* pushed and not yet saved the cursor for.                                *)
CoverInv ==
    /\ \A a \in Articles : start <= a /\ a <= cursor => Covered(a)
    /\ ppc \in {"push", "save"} =>
          \A a \in Articles : start <= a /\ a < pnext => Covered(a)

(* The pair the fan-out has an answer for and has not remembered.          *)
Asked(p) == fpc = "remember" /\ p[1] = fart /\ p[2] \in fclient

PaidInv ==
    /\ \A p \in Pairs : Asked(p) => verdict[p] = "none" /\ p \in Shortlisted
    /\ \A p \in Pairs : verdict[p] # "none" => p \in Shortlisted
    /\ \A p \in Pairs : paid[p] = IF Asked(p) \/ verdict[p] # "none" THEN 1 ELSE 0
    /\ fpc = "emit" => \A c \in fclient : verdict[<<fart, c>>] # "spurious"

-----------------------------------------------------------------------------
LEMMA QueueGrows ==
    ASSUME queue \in Seq(Articles), NEW u \in Articles, queue' = Append(queue, u)
    PROVE  Queued(u)' /\ \A a \in Articles : Queued(a) => Queued(a)'
<1>1. /\ Len(queue') = Len(queue) + 1 /\ Len(queue) \in Nat
      /\ queue'[Len(queue) + 1] = u
      /\ \A i \in 1..Len(queue) : queue'[i] = queue[i]
  OBVIOUS
<1>. QED  BY <1>1 DEF Queued

LEMMA QueueShrinks ==
    ASSUME queue \in Seq(Articles), queue # <<>>, queue' = Tail(queue)
    PROVE  \A a \in Articles : Queued(a) => a = Head(queue) \/ Queued(a)'
<1>1. /\ Len(queue') = Len(queue) - 1 /\ Len(queue) \in Nat \ {0}
      /\ \A i \in 1..(Len(queue) - 1) : queue'[i] = queue[i + 1]
      /\ Head(queue) = queue[1]
  OBVIOUS
<1>2. ASSUME NEW a \in Articles, NEW i \in 1..Len(queue), queue[i] = a, i # 1
      PROVE  Queued(a)'
  <2>1. i - 1 \in 1..Len(queue') /\ queue'[i - 1] = a
    BY <1>1, <1>2
  <2>. QED  BY <2>1 DEF Queued
<1>. QED  BY <1>1, <1>2 DEF Queued

LEMMA QueueKept ==
    ASSUME queue' = queue  PROVE  \A a \in Articles : Queued(a)' <=> Queued(a)
  BY DEF Queued

(* Each step preserves the types.                                        *)
LEMMA StepType ==
    ASSUME TypeOK, PollInv, FanInv, Next
    PROVE  TypeOK'
<1>1. ASSUME Publish  PROVE  TypeOK'
  BY <1>1, NewsAssumption DEF TypeOK, PollInv, FanInv, Articles, Pairs,
       outVars, pollVars, fanVars, history, Publish
<1>2. ASSUME NEW first \in Articles, PollFetch(first)  PROVE  TypeOK'
  BY <1>2, NewsAssumption DEF TypeOK, PollInv, FanInv, Articles, Pairs,
       outVars, pollVars, fanVars, history, PollFetch
<1>3. ASSUME PollPush  PROVE  TypeOK'
  BY <1>3, NewsAssumption DEF TypeOK, PollInv, FanInv, Articles, Pairs,
       outVars, pollVars, fanVars, history, PollPush
<1>4. ASSUME PollSave  PROVE  TypeOK'
  BY <1>4, NewsAssumption DEF TypeOK, PollInv, FanInv, Articles, Pairs,
       outVars, pollVars, fanVars, history, PollSave
<1>5. ASSUME FanDequeue  PROVE  TypeOK'
  BY <1>5, NewsAssumption DEF TypeOK, PollInv, FanInv, Articles, Pairs,
       outVars, pollVars, fanVars, history, FanDequeue
<1>6. ASSUME FanIndex  PROVE  TypeOK'
  BY <1>6, NewsAssumption DEF TypeOK, PollInv, FanInv, Articles, Pairs,
       outVars, pollVars, fanVars, history, FanIndex, FanReset, Hit
<1>7. ASSUME NEW relevant \in BOOLEAN, FanFilter(relevant)  PROVE  TypeOK'
  BY <1>7, NewsAssumption DEF TypeOK, PollInv, FanInv, Articles, Pairs,
       outVars, pollVars, fanVars, history, FanFilter, FanReset
<1>8. ASSUME FanFilterFails  PROVE  TypeOK'
  BY <1>8, NewsAssumption DEF TypeOK, PollInv, FanInv, Articles, Pairs,
       outVars, pollVars, fanVars, history, FanFilterFails
<1>9. ASSUME FanRequeue  PROVE  TypeOK'
  BY <1>9, NewsAssumption DEF TypeOK, PollInv, FanInv, Articles, Pairs,
       outVars, pollVars, fanVars, history, FanRequeue, FanReset
<1>10. ASSUME NEW c \in Clients, GateDrop(c)  PROVE  TypeOK'
  BY <1>10, NewsAssumption DEF TypeOK, PollInv, FanInv, Articles, Pairs,
       outVars, pollVars, fanVars, history, GateDrop
<1>11. ASSUME NEW c \in Clients, CachedDrop(c)  PROVE  TypeOK'
  BY <1>11, NewsAssumption DEF TypeOK, PollInv, FanInv, Articles, Pairs,
       outVars, pollVars, fanVars, history, CachedDrop
<1>12. ASSUME NEW c \in Clients, AcceptClient(c)  PROVE  TypeOK'
  BY <1>12, NewsAssumption DEF TypeOK, PollInv, FanInv, Articles, Pairs,
       outVars, pollVars, fanVars, history, AcceptClient, Passed
<1>13. ASSUME NEW c \in Clients, NEW answer \in {"about", "spurious"}, AskImpact(c, answer)  PROVE  TypeOK'
  BY <1>13, NewsAssumption DEF TypeOK, PollInv, FanInv, Articles, Pairs,
       outVars, pollVars, fanVars, history, AskImpact
<1>14. ASSUME NEW c \in Clients, AskFails(c)  PROVE  TypeOK'
  BY <1>14, NewsAssumption DEF TypeOK, PollInv, FanInv, Articles, Pairs,
       outVars, pollVars, fanVars, history, AskFails
<1>15. ASSUME NEW c \in Clients, RememberVerdict(c)  PROVE  TypeOK'
  BY <1>15, NewsAssumption DEF TypeOK, PollInv, FanInv, Articles, Pairs,
       outVars, pollVars, fanVars, history, RememberVerdict
<1>16. ASSUME NEW c \in Clients, EmitCandidate(c)  PROVE  TypeOK'
  BY <1>16, NewsAssumption DEF TypeOK, PollInv, FanInv, Articles, Pairs,
       outVars, pollVars, fanVars, history, EmitCandidate
<1>17. ASSUME FanFinish  PROVE  TypeOK'
  BY <1>17, NewsAssumption DEF TypeOK, PollInv, FanInv, Articles, Pairs,
       outVars, pollVars, fanVars, history, FanFinish, FanReset,
       UpsertWritten
<1>18. ASSUME PollFault  PROVE  TypeOK'
  BY <1>18, NewsAssumption DEF TypeOK, PollInv, FanInv, Articles, Pairs,
       outVars, pollVars, fanVars, history, PollFault, PollReset
<1>19. ASSUME FanFault  PROVE  TypeOK'
  BY <1>19, NewsAssumption DEF TypeOK, PollInv, FanInv, Articles, Pairs,
       outVars, pollVars, fanVars, history, FanFault, FanReset, FanDropped,
       Unremembered
<1>20. ASSUME RememberFails  PROVE  TypeOK'
  BY <1>20, NewsAssumption DEF TypeOK, PollInv, FanInv, Articles, Pairs,
       outVars, pollVars, fanVars, history, RememberFails, Unremembered
<1>21. ASSUME Restart  PROVE  TypeOK'
  BY <1>21, NewsAssumption DEF TypeOK, PollInv, FanInv, Articles, Pairs,
       outVars, pollVars, fanVars, history, Restart, FanReset, FanDropped,
       Unremembered, PollReset
<1>22. ASSUME NEW p \in Pairs, VerdictExpires(p)  PROVE  TypeOK'
  BY <1>22, NewsAssumption DEF TypeOK, PollInv, FanInv, Articles, Pairs,
       outVars, pollVars, fanVars, history, VerdictExpires
<1>. QED
  BY <1>1, <1>2, <1>3, <1>4, <1>5, <1>6, <1>7, <1>8, <1>9, <1>10, <1>11, <1>12, <1>13, <1>14, <1>15, <1>16, <1>17, <1>18, <1>19, <1>20, <1>21, <1>22
     DEF Next, PollStep, FanStep, TriageStep, FaultStep

(* ... where the poller is in its batch ...                               *)
LEMMA StepPoll ==
    ASSUME TypeOK, PollInv, Next
    PROVE  PollInv'
<1>1. ASSUME Publish  PROVE  PollInv'
  BY <1>1 DEF TypeOK, PollInv, Articles, pollVars, Publish
<1>2. ASSUME NEW first \in Articles, PollFetch(first)  PROVE  PollInv'
  <2>1. /\ first \in Nat /\ first >= 1 /\ first <= published
        /\ published \in Nat /\ cursor \in Nat /\ published > cursor
        /\ PageSize \in Nat \ {0}
    BY <1>2, NewsAssumption DEF TypeOK, Articles, PollFetch
  <2>2. plast' \in Nat /\ first <= plast'
    BY <1>2, <2>1 DEF PollFetch
  <2>. QED  BY <1>2, <2>1, <2>2 DEF PollInv, PollFetch
<1>3. ASSUME PollPush  PROVE  PollInv'
  BY <1>3 DEF TypeOK, PollInv, Articles, pollVars, PollPush
<1>4. ASSUME PollSave  PROVE  PollInv'
  BY <1>4 DEF TypeOK, PollInv, Articles, pollVars, PollSave
<1>5. ASSUME FanDequeue  PROVE  PollInv'
  BY <1>5 DEF TypeOK, PollInv, Articles, pollVars, FanDequeue
<1>6. ASSUME FanIndex  PROVE  PollInv'
  BY <1>6 DEF TypeOK, PollInv, Articles, pollVars, FanIndex, FanReset, Hit
<1>7. ASSUME NEW relevant \in BOOLEAN, FanFilter(relevant)  PROVE  PollInv'
  BY <1>7 DEF TypeOK, PollInv, Articles, pollVars, FanFilter, FanReset
<1>8. ASSUME FanFilterFails  PROVE  PollInv'
  BY <1>8 DEF TypeOK, PollInv, Articles, pollVars, FanFilterFails
<1>9. ASSUME FanRequeue  PROVE  PollInv'
  BY <1>9 DEF TypeOK, PollInv, Articles, pollVars, FanRequeue, FanReset
<1>10. ASSUME NEW c \in Clients, GateDrop(c)  PROVE  PollInv'
  BY <1>10 DEF TypeOK, PollInv, Articles, pollVars, GateDrop
<1>11. ASSUME NEW c \in Clients, CachedDrop(c)  PROVE  PollInv'
  BY <1>11 DEF TypeOK, PollInv, Articles, pollVars, CachedDrop
<1>12. ASSUME NEW c \in Clients, AcceptClient(c)  PROVE  PollInv'
  BY <1>12 DEF TypeOK, PollInv, Articles, pollVars, AcceptClient, Passed
<1>13. ASSUME NEW c \in Clients, NEW answer \in {"about", "spurious"}, AskImpact(c, answer)  PROVE  PollInv'
  BY <1>13 DEF TypeOK, PollInv, Articles, pollVars, AskImpact
<1>14. ASSUME NEW c \in Clients, AskFails(c)  PROVE  PollInv'
  BY <1>14 DEF TypeOK, PollInv, Articles, pollVars, AskFails
<1>15. ASSUME NEW c \in Clients, RememberVerdict(c)  PROVE  PollInv'
  BY <1>15 DEF TypeOK, PollInv, Articles, pollVars, RememberVerdict
<1>16. ASSUME NEW c \in Clients, EmitCandidate(c)  PROVE  PollInv'
  BY <1>16 DEF TypeOK, PollInv, Articles, pollVars, EmitCandidate
<1>17. ASSUME FanFinish  PROVE  PollInv'
  BY <1>17 DEF TypeOK, PollInv, Articles, pollVars, FanFinish, FanReset,
       UpsertWritten
<1>18. ASSUME PollFault  PROVE  PollInv'
  BY <1>18 DEF TypeOK, PollInv, Articles, pollVars, PollFault, PollReset
<1>19. ASSUME FanFault  PROVE  PollInv'
  BY <1>19 DEF TypeOK, PollInv, Articles, pollVars, FanFault, FanReset,
       FanDropped, Unremembered
<1>20. ASSUME RememberFails  PROVE  PollInv'
  BY <1>20 DEF TypeOK, PollInv, Articles, pollVars, RememberFails,
       Unremembered
<1>21. ASSUME Restart  PROVE  PollInv'
  BY <1>21 DEF TypeOK, PollInv, Articles, pollVars, Restart, FanReset,
       FanDropped, Unremembered, PollReset
<1>22. ASSUME NEW p \in Pairs, VerdictExpires(p)  PROVE  PollInv'
  BY <1>22 DEF TypeOK, PollInv, Articles, pollVars, VerdictExpires
<1>. QED
  BY <1>1, <1>2, <1>3, <1>4, <1>5, <1>6, <1>7, <1>8, <1>9, <1>10, <1>11, <1>12, <1>13, <1>14, <1>15, <1>16, <1>17, <1>18, <1>19, <1>20, <1>21, <1>22
     DEF Next, PollStep, FanStep, TriageStep, FaultStep

(* ... and what the fan-out holds in its hands.                           *)
LEMMA StepFan ==
    ASSUME TypeOK, FanInv, Next
    PROVE  FanInv'
<1>1. ASSUME Publish  PROVE  FanInv'
  BY <1>1 DEF TypeOK, FanInv, Articles, fanVars, Publish
<1>2. ASSUME NEW first \in Articles, PollFetch(first)  PROVE  FanInv'
  BY <1>2 DEF TypeOK, FanInv, Articles, fanVars, PollFetch
<1>3. ASSUME PollPush  PROVE  FanInv'
  BY <1>3 DEF TypeOK, FanInv, Articles, fanVars, PollPush
<1>4. ASSUME PollSave  PROVE  FanInv'
  BY <1>4 DEF TypeOK, FanInv, Articles, fanVars, PollSave
<1>5. ASSUME FanDequeue  PROVE  FanInv'
  <2>1. Head(queue) \in Articles
    BY <1>5 DEF FanDequeue, TypeOK
  <2>. QED
    BY <2>1, <1>5 DEF FanDequeue, TypeOK, FanInv, Articles
<1>6. ASSUME FanIndex  PROVE  FanInv'
  BY <1>6 DEF TypeOK, FanInv, Articles, fanVars, FanIndex, FanReset, Hit
<1>7. ASSUME NEW relevant \in BOOLEAN, FanFilter(relevant)  PROVE  FanInv'
  BY <1>7 DEF TypeOK, FanInv, Articles, fanVars, FanFilter, FanReset
<1>8. ASSUME FanFilterFails  PROVE  FanInv'
  BY <1>8 DEF TypeOK, FanInv, Articles, fanVars, FanFilterFails
<1>9. ASSUME FanRequeue  PROVE  FanInv'
  BY <1>9 DEF TypeOK, FanInv, Articles, fanVars, FanRequeue, FanReset
<1>10. ASSUME NEW c \in Clients, GateDrop(c)  PROVE  FanInv'
  BY <1>10 DEF TypeOK, FanInv, Articles, fanVars, GateDrop
<1>11. ASSUME NEW c \in Clients, CachedDrop(c)  PROVE  FanInv'
  BY <1>11 DEF TypeOK, FanInv, Articles, fanVars, CachedDrop
<1>12. ASSUME NEW c \in Clients, AcceptClient(c)  PROVE  FanInv'
  BY <1>12 DEF TypeOK, FanInv, Articles, fanVars, AcceptClient, Passed
<1>13. ASSUME NEW c \in Clients, NEW answer \in {"about", "spurious"}, AskImpact(c, answer)  PROVE  FanInv'
  BY <1>13 DEF TypeOK, FanInv, Articles, fanVars, AskImpact
<1>14. ASSUME NEW c \in Clients, AskFails(c)  PROVE  FanInv'
  BY <1>14 DEF TypeOK, FanInv, Articles, fanVars, AskFails
<1>15. ASSUME NEW c \in Clients, RememberVerdict(c)  PROVE  FanInv'
  BY <1>15 DEF TypeOK, FanInv, Articles, fanVars, RememberVerdict
<1>16. ASSUME NEW c \in Clients, EmitCandidate(c)  PROVE  FanInv'
  BY <1>16 DEF TypeOK, FanInv, Articles, fanVars, EmitCandidate
<1>17. ASSUME FanFinish  PROVE  FanInv'
  BY <1>17 DEF TypeOK, FanInv, Articles, fanVars, FanFinish, FanReset,
       UpsertWritten
<1>18. ASSUME PollFault  PROVE  FanInv'
  BY <1>18 DEF TypeOK, FanInv, Articles, fanVars, PollFault, PollReset
<1>19. ASSUME FanFault  PROVE  FanInv'
  BY <1>19 DEF TypeOK, FanInv, Articles, fanVars, FanFault, FanReset,
       FanDropped, Unremembered
<1>20. ASSUME RememberFails  PROVE  FanInv'
  BY <1>20 DEF TypeOK, FanInv, Articles, fanVars, RememberFails, Unremembered
<1>21. ASSUME Restart  PROVE  FanInv'
  BY <1>21 DEF TypeOK, FanInv, Articles, fanVars, Restart, FanReset,
       FanDropped, Unremembered, PollReset
<1>22. ASSUME NEW p \in Pairs, VerdictExpires(p)  PROVE  FanInv'
  BY <1>22 DEF TypeOK, FanInv, Articles, fanVars, VerdictExpires
<1>. QED
  BY <1>1, <1>2, <1>3, <1>4, <1>5, <1>6, <1>7, <1>8, <1>9, <1>10, <1>11, <1>12, <1>13, <1>14, <1>15, <1>16, <1>17, <1>18, <1>19, <1>20, <1>21, <1>22
     DEF Next, PollStep, FanStep, TriageStep, FaultStep

(* No step uncovers an article: what leaves the queue is in the fan-out's *)
(* hands, what leaves those is finished, queued again or caught.           *)
LEMMA StepCover ==
    ASSUME TypeOK, PollInv, FanInv, CoverInv, Next
    PROVE  CoverInv'
<1>1. ASSUME Publish  PROVE  CoverInv'
  <2>1. \A a \in Articles : Queued(a)' <=> Queued(a)
    BY QueueKept, <1>1 DEF Publish
  <2>. QED
    BY <2>1, <1>1 DEF TypeOK, PollInv, FanInv, CoverInv, Covered,
         CursorCovers, Articles, fanVars, pollVars, history, Publish
<1>2. ASSUME NEW first \in Articles, PollFetch(first)  PROVE  CoverInv'
  <2>1. \A a \in Articles : Queued(a)' <=> Queued(a)
    BY QueueKept, <1>2 DEF PollFetch
  <2>. QED
    BY <2>1, <1>2 DEF TypeOK, PollInv, FanInv, CoverInv, Covered,
         CursorCovers, Articles, fanVars, pollVars, history, PollFetch
<1>3. ASSUME PollPush  PROVE  CoverInv'
  <2>1. pnext \in Articles
    BY <1>3, NewsAssumption DEF PollPush, TypeOK, PollInv, Articles
  <2>2. \A u \in Articles : u = pnext \/ Queued(u) => Queued(u)'
    BY QueueGrows, <2>1, <1>3 DEF PollPush, TypeOK
  <2>. QED
    BY <2>1, <2>2, <1>3 DEF PollPush, TypeOK, PollInv, FanInv, CoverInv,
         Covered, CursorCovers, Articles, fanVars, pollVars, history
<1>4. ASSUME PollSave  PROVE  CoverInv'
  <2>1. \A a \in Articles : Queued(a)' <=> Queued(a)
    BY QueueKept, <1>4 DEF PollSave
  <2>. QED
    BY <2>1, <1>4 DEF TypeOK, PollInv, FanInv, CoverInv, Covered,
         CursorCovers, Articles, fanVars, pollVars, history, PollSave
<1>5. ASSUME FanDequeue  PROVE  CoverInv'
  <2>1. \A a \in Articles : Queued(a) => a = fart' \/ Queued(a)'
    BY QueueShrinks, <1>5 DEF FanDequeue, TypeOK
  <2>. QED
    BY <2>1, <1>5 DEF FanDequeue, TypeOK, PollInv, FanInv, CoverInv,
         Covered, CursorCovers, Articles, fanVars, pollVars, history
<1>6. ASSUME FanIndex  PROVE  CoverInv'
  <2>1. \A a \in Articles : Queued(a)' <=> Queued(a)
    BY QueueKept, <1>6 DEF FanIndex
  <2>. QED
    BY <2>1, <1>6 DEF TypeOK, PollInv, FanInv, CoverInv, Covered,
         CursorCovers, Articles, fanVars, pollVars, history, FanIndex,
         FanReset, Hit
<1>7. ASSUME NEW relevant \in BOOLEAN, FanFilter(relevant)  PROVE  CoverInv'
  <2>1. \A a \in Articles : Queued(a)' <=> Queued(a)
    BY QueueKept, <1>7 DEF FanFilter
  <2>. QED
    BY <2>1, <1>7 DEF TypeOK, PollInv, FanInv, CoverInv, Covered,
         CursorCovers, Articles, fanVars, pollVars, history, FanFilter,
         FanReset
<1>8. ASSUME FanFilterFails  PROVE  CoverInv'
  <2>1. \A a \in Articles : Queued(a)' <=> Queued(a)
    BY QueueKept, <1>8 DEF FanFilterFails
  <2>. QED
    BY <2>1, <1>8 DEF TypeOK, PollInv, FanInv, CoverInv, Covered,
         CursorCovers, Articles, fanVars, pollVars, history, FanFilterFails
<1>9. ASSUME FanRequeue  PROVE  CoverInv'
  <2>1. fart \in Articles
    BY <1>9 DEF FanRequeue, TypeOK, FanInv
  <2>2. \A u \in Articles : u = fart \/ Queued(u) => Queued(u)'
    BY QueueGrows, <2>1, <1>9 DEF FanRequeue, TypeOK
  <2>. QED
    BY <2>2, <1>9 DEF FanRequeue, FanReset, TypeOK, PollInv, FanInv,
         CoverInv, Covered, CursorCovers, Articles, fanVars, pollVars, history
<1>10. ASSUME NEW c \in Clients, GateDrop(c)  PROVE  CoverInv'
  <2>1. \A a \in Articles : Queued(a)' <=> Queued(a)
    BY QueueKept, <1>10 DEF GateDrop
  <2>. QED
    BY <2>1, <1>10 DEF TypeOK, PollInv, FanInv, CoverInv, Covered,
         CursorCovers, Articles, fanVars, pollVars, history, GateDrop
<1>11. ASSUME NEW c \in Clients, CachedDrop(c)  PROVE  CoverInv'
  <2>1. \A a \in Articles : Queued(a)' <=> Queued(a)
    BY QueueKept, <1>11 DEF CachedDrop
  <2>. QED
    BY <2>1, <1>11 DEF TypeOK, PollInv, FanInv, CoverInv, Covered,
         CursorCovers, Articles, fanVars, pollVars, history, CachedDrop
<1>12. ASSUME NEW c \in Clients, AcceptClient(c)  PROVE  CoverInv'
  <2>1. \A a \in Articles : Queued(a)' <=> Queued(a)
    BY QueueKept, <1>12 DEF AcceptClient
  <2>. QED
    BY <2>1, <1>12 DEF TypeOK, PollInv, FanInv, CoverInv, Covered,
         CursorCovers, Articles, fanVars, pollVars, history, AcceptClient,
         Passed
<1>13. ASSUME NEW c \in Clients, NEW answer \in {"about", "spurious"}, AskImpact(c, answer)  PROVE  CoverInv'
  <2>1. \A a \in Articles : Queued(a)' <=> Queued(a)
    BY QueueKept, <1>13 DEF AskImpact
  <2>. QED
    BY <2>1, <1>13 DEF TypeOK, PollInv, FanInv, CoverInv, Covered,
         CursorCovers, Articles, fanVars, pollVars, history, AskImpact
<1>14. ASSUME NEW c \in Clients, AskFails(c)  PROVE  CoverInv'
  <2>1. \A a \in Articles : Queued(a)' <=> Queued(a)
    BY QueueKept, <1>14 DEF AskFails
  <2>. QED
    BY <2>1, <1>14 DEF TypeOK, PollInv, FanInv, CoverInv, Covered,
         CursorCovers, Articles, fanVars, pollVars, history, AskFails
<1>15. ASSUME NEW c \in Clients, RememberVerdict(c)  PROVE  CoverInv'
  <2>1. \A a \in Articles : Queued(a)' <=> Queued(a)
    BY QueueKept, <1>15 DEF RememberVerdict
  <2>. QED
    BY <2>1, <1>15 DEF TypeOK, PollInv, FanInv, CoverInv, Covered,
         CursorCovers, Articles, fanVars, pollVars, history, RememberVerdict
<1>16. ASSUME NEW c \in Clients, EmitCandidate(c)  PROVE  CoverInv'
  <2>1. \A a \in Articles : Queued(a)' <=> Queued(a)
    BY QueueKept, <1>16 DEF EmitCandidate
  <2>. QED
    BY <2>1, <1>16 DEF TypeOK, PollInv, FanInv, CoverInv, Covered,
         CursorCovers, Articles, fanVars, pollVars, history, EmitCandidate
<1>17. ASSUME FanFinish  PROVE  CoverInv'
  <2>1. \A a \in Articles : Queued(a)' <=> Queued(a)
    BY QueueKept, <1>17 DEF FanFinish
  <2>. QED
    BY <2>1, <1>17 DEF TypeOK, PollInv, FanInv, CoverInv, Covered,
         CursorCovers, Articles, fanVars, pollVars, history, FanFinish,
         FanReset, UpsertWritten
<1>18. ASSUME PollFault  PROVE  CoverInv'
  <2>1. \A a \in Articles : Queued(a)' <=> Queued(a)
    BY QueueKept, <1>18 DEF PollFault
  <2>. QED
    BY <2>1, <1>18 DEF TypeOK, PollInv, FanInv, CoverInv, Covered,
         CursorCovers, Articles, fanVars, pollVars, history, PollFault,
         PollReset
<1>19. ASSUME FanFault  PROVE  CoverInv'
  <2>1. \A a \in Articles : Queued(a)' <=> Queued(a)
    BY QueueKept, <1>19 DEF FanFault
  <2>. QED
    BY <2>1, <1>19 DEF TypeOK, PollInv, FanInv, CoverInv, Covered,
         CursorCovers, Articles, fanVars, pollVars, history, FanFault,
         FanReset, FanDropped, Unremembered
<1>20. ASSUME RememberFails  PROVE  CoverInv'
  <2>1. \A a \in Articles : Queued(a)' <=> Queued(a)
    BY QueueKept, <1>20 DEF RememberFails
  <2>. QED
    BY <2>1, <1>20 DEF TypeOK, PollInv, FanInv, CoverInv, Covered,
         CursorCovers, Articles, fanVars, pollVars, history, RememberFails,
         Unremembered
<1>21. ASSUME Restart  PROVE  CoverInv'
  <2>1. \A a \in Articles : Queued(a)' <=> Queued(a)
    BY QueueKept, <1>21 DEF Restart
  <2>. QED
    BY <2>1, <1>21 DEF TypeOK, PollInv, FanInv, CoverInv, Covered,
         CursorCovers, Articles, fanVars, pollVars, history, Restart, FanReset,
         FanDropped, Unremembered, PollReset
<1>22. ASSUME NEW p \in Pairs, VerdictExpires(p)  PROVE  CoverInv'
  <2>1. \A a \in Articles : Queued(a)' <=> Queued(a)
    BY QueueKept, <1>22 DEF VerdictExpires
  <2>. QED
    BY <2>1, <1>22 DEF TypeOK, PollInv, FanInv, CoverInv, Covered,
         CursorCovers, Articles, fanVars, pollVars, history, VerdictExpires
<1>. QED
  BY <1>1, <1>2, <1>3, <1>4, <1>5, <1>6, <1>7, <1>8, <1>9, <1>10, <1>11, <1>12, <1>13, <1>14, <1>15, <1>16, <1>17, <1>18, <1>19, <1>20, <1>21, <1>22
     DEF Next, PollStep, FanStep, TriageStep, FaultStep

(* A payment has its verdict, in Redis or in the fan-out's hands.         *)
LEMMA StepPaid ==
    ASSUME TypeOK, FanInv, PaidInv, Next
    PROVE  PaidInv'
<1>1. ASSUME Publish  PROVE  PaidInv'
  BY <1>1 DEF TypeOK, FanInv, PaidInv, Asked, Articles, Pairs, fanVars,
       outVars, history, Publish
<1>2. ASSUME NEW first \in Articles, PollFetch(first)  PROVE  PaidInv'
  BY <1>2 DEF TypeOK, FanInv, PaidInv, Asked, Articles, Pairs, fanVars,
       outVars, history, PollFetch
<1>3. ASSUME PollPush  PROVE  PaidInv'
  BY <1>3 DEF TypeOK, FanInv, PaidInv, Asked, Articles, Pairs, fanVars,
       outVars, history, PollPush
<1>4. ASSUME PollSave  PROVE  PaidInv'
  BY <1>4 DEF TypeOK, FanInv, PaidInv, Asked, Articles, Pairs, fanVars,
       outVars, history, PollSave
<1>5. ASSUME FanDequeue  PROVE  PaidInv'
  BY <1>5 DEF TypeOK, FanInv, PaidInv, Asked, Articles, Pairs, fanVars,
       outVars, history, FanDequeue
<1>6. ASSUME FanIndex  PROVE  PaidInv'
  BY <1>6 DEF TypeOK, FanInv, PaidInv, Asked, Articles, Pairs, fanVars,
       outVars, history, FanIndex, FanReset, Hit
<1>7. ASSUME NEW relevant \in BOOLEAN, FanFilter(relevant)  PROVE  PaidInv'
  BY <1>7 DEF TypeOK, FanInv, PaidInv, Asked, Articles, Pairs, fanVars,
       outVars, history, FanFilter, FanReset
<1>8. ASSUME FanFilterFails  PROVE  PaidInv'
  BY <1>8 DEF TypeOK, FanInv, PaidInv, Asked, Articles, Pairs, fanVars,
       outVars, history, FanFilterFails
<1>9. ASSUME FanRequeue  PROVE  PaidInv'
  BY <1>9 DEF TypeOK, FanInv, PaidInv, Asked, Articles, Pairs, fanVars,
       outVars, history, FanRequeue, FanReset
<1>10. ASSUME NEW c \in Clients, GateDrop(c)  PROVE  PaidInv'
  BY <1>10 DEF TypeOK, FanInv, PaidInv, Asked, Articles, Pairs, fanVars,
       outVars, history, GateDrop
<1>11. ASSUME NEW c \in Clients, CachedDrop(c)  PROVE  PaidInv'
  BY <1>11 DEF TypeOK, FanInv, PaidInv, Asked, Articles, Pairs, fanVars,
       outVars, history, CachedDrop
<1>12. ASSUME NEW c \in Clients, AcceptClient(c)  PROVE  PaidInv'
  BY <1>12 DEF TypeOK, FanInv, PaidInv, Asked, Articles, Pairs, fanVars,
       outVars, history, AcceptClient, Passed
<1>13. ASSUME NEW c \in Clients, NEW answer \in {"about", "spurious"}, AskImpact(c, answer)  PROVE  PaidInv'
  <2>1. fart \in Articles /\ <<fart, c>> \in Pairs
    BY <1>13 DEF AskImpact, TypeOK, FanInv, Pairs
  <2>2. \A p \in Pairs : Asked(p)' <=> p = <<fart, c>>
    BY <1>13, <2>1 DEF AskImpact, Asked, Pairs
  <2>3. \A p \in Pairs : ~Asked(p)
    BY <1>13 DEF AskImpact, Asked
  <2>4. \A p \in Pairs : paid'[p] = IF p = <<fart, c>> THEN paid[p] + 1 ELSE paid[p]
    BY <1>13, <2>1 DEF AskImpact, TypeOK
  <2>5. \A p \in Pairs : paid'[p] = IF Asked(p)' \/ verdict[p] # "none" THEN 1 ELSE 0
    BY <1>13, <2>1, <2>2, <2>3, <2>4 DEF AskImpact, PaidInv
  <2>6. verdict' = verdict /\ fpc' = "remember"
    BY <1>13 DEF AskImpact, outVars
  <2>7. \A p \in Pairs : Asked(p)' => verdict[p] = "none" /\ p \in Shortlisted
    BY <1>13, <2>2 DEF AskImpact
  <2>. QED
    BY <2>5, <2>6, <2>7 DEF PaidInv
<1>14. ASSUME NEW c \in Clients, AskFails(c)  PROVE  PaidInv'
  BY <1>14 DEF TypeOK, FanInv, PaidInv, Asked, Articles, Pairs, fanVars,
       outVars, history, AskFails
<1>15. ASSUME NEW c \in Clients, RememberVerdict(c)  PROVE  PaidInv'
  BY <1>15 DEF TypeOK, FanInv, PaidInv, Asked, Articles, Pairs, fanVars,
       outVars, history, RememberVerdict
<1>16. ASSUME NEW c \in Clients, EmitCandidate(c)  PROVE  PaidInv'
  BY <1>16 DEF TypeOK, FanInv, PaidInv, Asked, Articles, Pairs, fanVars,
       outVars, history, EmitCandidate
<1>17. ASSUME FanFinish  PROVE  PaidInv'
  BY <1>17 DEF TypeOK, FanInv, PaidInv, Asked, Articles, Pairs, fanVars,
       outVars, history, FanFinish, FanReset, UpsertWritten
<1>18. ASSUME PollFault  PROVE  PaidInv'
  BY <1>18 DEF TypeOK, FanInv, PaidInv, Asked, Articles, Pairs, fanVars,
       outVars, history, PollFault, PollReset
<1>19. ASSUME FanFault  PROVE  PaidInv'
  BY <1>19 DEF TypeOK, FanInv, PaidInv, Asked, Articles, Pairs, fanVars,
       outVars, history, FanFault, FanReset, FanDropped, Unremembered
<1>20. ASSUME RememberFails  PROVE  PaidInv'
  BY <1>20 DEF TypeOK, FanInv, PaidInv, Asked, Articles, Pairs, fanVars,
       outVars, history, RememberFails, Unremembered
<1>21. ASSUME Restart  PROVE  PaidInv'
  BY <1>21 DEF TypeOK, FanInv, PaidInv, Asked, Articles, Pairs, fanVars,
       outVars, history, Restart, FanReset, FanDropped, Unremembered,
       PollReset
<1>22. ASSUME NEW p \in Pairs, VerdictExpires(p)  PROVE  PaidInv'
  BY <1>22 DEF TypeOK, FanInv, PaidInv, Asked, Articles, Pairs, fanVars,
       outVars, history, VerdictExpires
<1>. QED
  BY <1>1, <1>2, <1>3, <1>4, <1>5, <1>6, <1>7, <1>8, <1>9, <1>10, <1>11, <1>12, <1>13, <1>14, <1>15, <1>16, <1>17, <1>18, <1>19, <1>20, <1>21, <1>22
     DEF Next, PollStep, FanStep, TriageStep, FaultStep

-----------------------------------------------------------------------------
IInv == TypeOK /\ PollInv /\ FanInv /\ CoverInv /\ PaidInv

LEMMA InitIInv == Init => IInv
  BY NewsAssumption
     DEF Init, IInv, TypeOK, PollInv, FanInv, CoverInv, Covered, PaidInv, Asked,
         Articles, Pairs

LEMMA StutterIInv ==
    ASSUME IInv, UNCHANGED vars  PROVE  IInv'
<1>1. (TypeOK /\ PollInv /\ FanInv)'
  BY DEF IInv, TypeOK, PollInv, FanInv, vars, outVars, pollVars, fanVars, history
<1>2. \A a \in Articles : Queued(a)' <=> Queued(a)
  BY QueueKept DEF vars
<1>3. CoverInv'
  BY <1>2 DEF IInv, CoverInv, Covered, vars, pollVars, fanVars, history
<1>4. PaidInv'
  BY DEF IInv, PaidInv, Asked, vars, outVars,
         fanVars, history
<1>. QED  BY <1>1, <1>3, <1>4 DEF IInv

LEMMA Inductive == Spec => []IInv
<1>1. IInv /\ Next => IInv'
  BY StepType, StepPoll, StepFan, StepCover, StepPaid DEF IInv
<1>2. IInv /\ [Next]_vars => IInv'
  BY <1>1, StutterIInv
<1>. QED  BY InitIInv, <1>2, PTL DEF Spec

(* Every reachable state is well typed: among others, only articles of the *)
(* feed are ever queued and only clients ever stored.                      *)
THEOREM TypeCorrect == Spec => []TypeOK
<1>1. IInv => TypeOK
  BY DEF IInv
<1>. QED  BY Inductive, <1>1, PTL

(* Wherever the poller or the fan-out fails, the saved cursor covers no    *)
(* article that was not handed on.                                         *)
THEOREM CoverTheorem == Spec => []CursorCovers
<1>1. IInv => CursorCovers
  BY DEF IInv, CoverInv, Covered, CursorCovers
<1>. QED  BY Inductive, <1>1, PTL

(* However often an article is delivered, the LLM is paid once per pair    *)
(* and remembered verdict.                                                 *)
THEOREM PaidOnceTheorem == Spec => []PaidOnce
<1>1. IInv => PaidOnce
  BY DEF IInv, PaidInv, PaidOnce
<1>. QED  BY Inductive, <1>1, PTL

LEMMA EmitStep ==
    ASSUME TypeOK, FanInv, PaidInv, Next
    PROVE  \A p \in Pairs : p \in emitted' \ emitted => verdict[p] # "spurious"
<1>1. ASSUME NEW c \in Clients, EmitCandidate(c)
      PROVE  \A p \in Pairs : p \in emitted' \ emitted => verdict[p] # "spurious"
  BY <1>1 DEF EmitCandidate, PaidInv, FanInv
<1>2. emitted' = emitted \/ \E c \in Clients : EmitCandidate(c)
  BY DEF Next, PollStep, FanStep, TriageStep, FaultStep, Publish, PollFetch,
         PollPush, PollSave, FanDequeue, FanIndex, FanFilter, FanFilterFails,
         FanRequeue, GateDrop, CachedDrop, AcceptClient, AskImpact, AskFails,
         RememberVerdict, FanFinish, PollFault, FanFault, RememberFails, Restart,
         VerdictExpires, outVars
<1>. QED  BY <1>1, <1>2

(* A candidate is never pushed for a pair whose remembered verdict is      *)
(* spurious.                                                               *)
THEOREM NoSpuriousTheorem == Spec => NoSpuriousCandidate
<1>1. IInv /\ [Next]_vars =>
        [\A p \in Pairs : p \in emitted' \ emitted => verdict[p] # "spurious"]_vars
  BY EmitStep DEF IInv
<1>. QED  BY Inductive, <1>1, PTL DEF Spec, NoSpuriousCandidate
=============================================================================
