------------------------- MODULE TokenRefreshProofs -------------------------
(***************************************************************************)
(* Theorems about TokenRefresh for every number of requests, every budget  *)
(* of attempts, and refresh tokens good for one use or for many.           *)
(***************************************************************************)
EXTENDS TokenRefresh, TLAPS

\* What the service hands out keeps its types.
LEMMA IssueTypes ==
  ASSUME TypeOK, NEW a \in Actors, Issue(a)
  PROVE  /\ issued' \in Tokens /\ live' \subseteq 1 .. issued'
         /\ rotates' \in BOOLEAN /\ spent' \subseteq 0 .. MaxIssued
<1>1. issued \in Tokens /\ MaxIssued \in Nat /\ issued' = issued + 1 /\ issued < MaxIssued
  BY TokenAssumption DEF TypeOK, Issue
<1>2. issued' \in Tokens
  BY <1>1 DEF Tokens
<1>3. live' \subseteq 1 .. issued'
  <2>1. live \subseteq 1 .. issued /\ live' = live \cup {issued'}
    BY <1>1 DEF TypeOK, Issue
  <2> QED
    BY <1>1, <2>1 DEF Tokens
<1>4. rotates' \in BOOLEAN
  BY DEF TypeOK, Issue
<1>5. spent' \subseteq 0 .. MaxIssued
  <2>1. cur[a] \in 0 .. MaxIssued /\ spent \subseteq 0 .. MaxIssued
    BY DEF TypeOK
  <2>2. spent' = spent \cup {cur[a]} \/ spent' = spent
    BY DEF Issue
  <2> QED
    BY <2>1, <2>2
<1> QED
  BY <1>2, <1>3, <1>4, <1>5

\* Types and attempts: the budgets are kept together with the labels.
LEMMA TypesStep ==
  ASSUME TypeOK, Attempts, [Next]_vars
  PROVE  TypeOK' /\ Attempts'
<1> USE TokenAssumption DEF Actors, Tokens, Goto, Returns, Issue, service, grant, request, TypeOK, Attempts, Extra
<1>1. ASSUME NEW e \in Callers, Begin(e) PROVE TypeOK' /\ Attempts'
  BY <1>1 DEF Begin
<1>2. ASSUME NEW e \in Callers, Send(e) PROVE TypeOK' /\ Attempts'
  BY <1>2 DEF Send
<1>3. ASSUME NEW e \in Callers, Unanswered(e) PROVE TypeOK' /\ Attempts'
  BY <1>3 DEF Unanswered
<1>4. ASSUME NEW e \in Callers, Answered(e) PROVE TypeOK' /\ Attempts'
  BY <1>4 DEF Answered
<1>5. ASSUME NEW e \in Callers, Unauthorized(e) PROVE TypeOK' /\ Attempts'
  BY <1>5 DEF Unauthorized
<1>6. ASSUME NEW e \in Callers, Lock(e) PROVE TypeOK' /\ Attempts'
  BY <1>6 DEF Lock
<1>7. ASSUME NEW e \in Callers, Save(e) PROVE TypeOK' /\ Attempts'
  BY <1>7 DEF Save
<1>8. ASSUME NEW e \in Callers, RefreshFails(e) PROVE TypeOK' /\ Attempts'
  BY <1>8 DEF RefreshFails
<1>9. ASSUME NEW e \in Actors, Granted(e) PROVE TypeOK' /\ Attempts'
  <2>1. /\ issued' \in Tokens /\ live' \subseteq 1 .. issued'
        /\ rotates' \in BOOLEAN /\ spent' \subseteq 0 .. MaxIssued
    BY <1>9, IssueTypes DEF Granted
  <2>2. got' \in [Actors -> 0 .. MaxIssued]
    BY <1>9 DEF Granted
  <2> QED
    BY <1>9, <2>1, <2>2 DEF Granted
<1>10. ASSUME NEW e \in Actors, Refused(e) PROVE TypeOK' /\ Attempts'
  BY <1>10 DEF Refused
<1>11. ASSUME NEW e \in Actors, Lost(e) PROVE TypeOK' /\ Attempts'
  <2>1. /\ issued' \in Tokens /\ live' \subseteq 1 .. issued'
        /\ rotates' \in BOOLEAN /\ spent' \subseteq 0 .. MaxIssued
    <3>1. CASE Issue(e)
      BY <3>1, IssueTypes
    <3>2. CASE UNCHANGED <<issued, live, rotates, spent>>
      BY <3>2
    <3> QED
      BY <1>11, <3>1, <3>2 DEF Lost
  <2>2. faults' \in 0 .. MaxFaults
    BY <1>11 DEF Lost
  <2>3. tries' \in [Actors -> 0 .. GrantRetries + 2]
    BY <1>11 DEF Lost
  <2>4. \A b \in Actors : pc'[b] = "grant" => tries'[b] <= GrantRetries + 1
    BY <1>11 DEF Lost
  <2> QED
    BY <1>11, <2>1, <2>2, <2>3, <2>4 DEF Lost
<1>12. ASSUME TimerFires PROVE TypeOK' /\ Attempts'
  BY <1>12 DEF TimerFires
<1>13. ASSUME SchedulerLock PROVE TypeOK' /\ Attempts'
  BY <1>13 DEF SchedulerLock
<1>14. ASSUME SchedulerUnlock PROVE TypeOK' /\ Attempts'
  BY <1>14 DEF SchedulerUnlock
<1>15. ASSUME SchedulerSave PROVE TypeOK' /\ Attempts'
  BY <1>15 DEF SchedulerSave
<1>16. ASSUME SchedulerFails PROVE TypeOK' /\ Attempts'
  BY <1>16 DEF SchedulerFails
<1>17. ASSUME SchedulerStops PROVE TypeOK' /\ Attempts'
  BY <1>17 DEF SchedulerStops
<1>18. ASSUME Expire PROVE TypeOK' /\ Attempts'
  BY <1>18 DEF Expire
<1>19. CASE UNCHANGED vars
  BY <1>19 DEF vars
<1> QED
  BY <1>1, <1>2, <1>3, <1>4, <1>5, <1>6, <1>7, <1>8, <1>9, <1>10,
     <1>11, <1>12, <1>13, <1>14, <1>15, <1>16, <1>17, <1>18, <1>19
  DEF Next, CallerStep, GrantStep, SchedulerStep

\* The mutex has one holder, and a caller in its critical section is it.
LEMMA MutexStep ==
  ASSUME TypeOK, Mutex, [Next]_vars
  PROVE  Mutex'
<1> USE TokenAssumption DEF Actors, Tokens, Goto, Returns, Issue, service, grant, request, TypeOK, Mutex, InMutex
<1>1. ASSUME NEW e \in Callers, Begin(e) PROVE Mutex'
  BY <1>1 DEF Begin
<1>2. ASSUME NEW e \in Callers, Send(e) PROVE Mutex'
  BY <1>2 DEF Send
<1>3. ASSUME NEW e \in Callers, Unanswered(e) PROVE Mutex'
  BY <1>3 DEF Unanswered
<1>4. ASSUME NEW e \in Callers, Answered(e) PROVE Mutex'
  BY <1>4 DEF Answered
<1>5. ASSUME NEW e \in Callers, Unauthorized(e) PROVE Mutex'
  BY <1>5 DEF Unauthorized
<1>6. ASSUME NEW e \in Callers, Lock(e) PROVE Mutex'
  BY <1>6 DEF Lock
<1>7. ASSUME NEW e \in Callers, Save(e) PROVE Mutex'
  BY <1>7 DEF Save
<1>8. ASSUME NEW e \in Callers, RefreshFails(e) PROVE Mutex'
  BY <1>8 DEF RefreshFails
<1>9. ASSUME NEW e \in Actors, Granted(e) PROVE Mutex'
  BY <1>9 DEF Granted
<1>10. ASSUME NEW e \in Actors, Refused(e) PROVE Mutex'
  BY <1>10 DEF Refused
<1>11. ASSUME NEW e \in Actors, Lost(e) PROVE Mutex'
  BY <1>11 DEF Lost
<1>12. ASSUME TimerFires PROVE Mutex'
  BY <1>12 DEF TimerFires
<1>13. ASSUME SchedulerLock PROVE Mutex'
  BY <1>13 DEF SchedulerLock
<1>14. ASSUME SchedulerUnlock PROVE Mutex'
  BY <1>14 DEF SchedulerUnlock
<1>15. ASSUME SchedulerSave PROVE Mutex'
  BY <1>15 DEF SchedulerSave
<1>16. ASSUME SchedulerFails PROVE Mutex'
  BY <1>16 DEF SchedulerFails
<1>17. ASSUME SchedulerStops PROVE Mutex'
  BY <1>17 DEF SchedulerStops
<1>18. ASSUME Expire PROVE Mutex'
  BY <1>18 DEF Expire
<1>19. CASE UNCHANGED vars
  BY <1>19 DEF vars
<1> QED
  BY <1>1, <1>2, <1>3, <1>4, <1>5, <1>6, <1>7, <1>8, <1>9, <1>10,
     <1>11, <1>12, <1>13, <1>14, <1>15, <1>16, <1>17, <1>18, <1>19
  DEF Next, CallerStep, GrantStep, SchedulerStep

\* What is used was stored before, and what is stored was issued.
LEMMA IssuedStep ==
  ASSUME TypeOK, Mutex, Issued, [Next]_vars
  PROVE  Issued'
<1> USE TokenAssumption DEF Actors, Tokens, Goto, Returns, Issue, service, grant, request, TypeOK, Mutex, InMutex, Issued
<1>1. ASSUME NEW e \in Callers, Begin(e) PROVE Issued'
  BY <1>1 DEF Begin
<1>2. ASSUME NEW e \in Callers, Send(e) PROVE Issued'
  BY <1>2 DEF Send
<1>3. ASSUME NEW e \in Callers, Unanswered(e) PROVE Issued'
  BY <1>3 DEF Unanswered
<1>4. ASSUME NEW e \in Callers, Answered(e) PROVE Issued'
  BY <1>4 DEF Answered
<1>5. ASSUME NEW e \in Callers, Unauthorized(e) PROVE Issued'
  BY <1>5 DEF Unauthorized
<1>6. ASSUME NEW e \in Callers, Lock(e) PROVE Issued'
  BY <1>6 DEF Lock
<1>7. ASSUME NEW e \in Callers, Save(e) PROVE Issued'
  BY <1>7 DEF Save
<1>8. ASSUME NEW e \in Callers, RefreshFails(e) PROVE Issued'
  BY <1>8 DEF RefreshFails
<1>9. ASSUME NEW e \in Actors, Granted(e) PROVE Issued'
  BY <1>9 DEF Granted
<1>10. ASSUME NEW e \in Actors, Refused(e) PROVE Issued'
  BY <1>10 DEF Refused
<1>11. ASSUME NEW e \in Actors, Lost(e) PROVE Issued'
  BY <1>11 DEF Lost
<1>12. ASSUME TimerFires PROVE Issued'
  BY <1>12 DEF TimerFires
<1>13. ASSUME SchedulerLock PROVE Issued'
  BY <1>13 DEF SchedulerLock
<1>14. ASSUME SchedulerUnlock PROVE Issued'
  BY <1>14 DEF SchedulerUnlock
<1>15. ASSUME SchedulerSave PROVE Issued'
  BY <1>15 DEF SchedulerSave
<1>16. ASSUME SchedulerFails PROVE Issued'
  BY <1>16 DEF SchedulerFails
<1>17. ASSUME SchedulerStops PROVE Issued'
  BY <1>17 DEF SchedulerStops
<1>18. ASSUME Expire PROVE Issued'
  BY <1>18 DEF Expire
<1>19. CASE UNCHANGED vars
  BY <1>19 DEF vars
<1> QED
  BY <1>1, <1>2, <1>3, <1>4, <1>5, <1>6, <1>7, <1>8, <1>9, <1>10,
     <1>11, <1>12, <1>13, <1>14, <1>15, <1>16, <1>17, <1>18, <1>19
  DEF Next, CallerStep, GrantStep, SchedulerStep

\* A grant uses the newest refresh token if tokens are good for one use.
LEMMA IssueRotates ==
  ASSUME TypeOK, Issued, Rotation, NEW a \in Actors, pc[a] = "grant", Issue(a)
  PROVE  /\ Rotation'
         /\ rotates => cur[a] = issued
<1>1. issued \in Nat \ {0} /\ cur[a] \in 1 .. issued /\ rotates \in BOOLEAN
  BY DEF TypeOK, Issued, Actors, Tokens
<1>2. CASE rotates
  <2>1. spent = 1 .. issued - 1 /\ cur[a] = issued
    BY <1>1, <1>2 DEF Rotation, Issue
  <2>2. spent' = 1 .. issued' - 1 /\ rotates'
    BY <1>1, <1>2, <2>1 DEF Issue
  <2> QED
    BY <2>1, <2>2 DEF Rotation
<1>3. CASE ~rotates
  BY <1>3 DEF Rotation, Issue
<1> QED
  BY <1>1, <1>2, <1>3

\* Only the newest refresh token is not spent.
LEMMA RotationStep ==
  ASSUME TypeOK, Issued, Rotation, [Next]_vars
  PROVE  Rotation'
<1> USE TokenAssumption DEF Actors, Tokens, Goto, Returns, service, grant, request
<1>1. ASSUME NEW e \in Callers, Begin(e) PROVE Rotation'
  BY <1>1 DEF Begin, Rotation
<1>2. ASSUME NEW e \in Callers, Send(e) PROVE Rotation'
  BY <1>2 DEF Send, Rotation
<1>3. ASSUME NEW e \in Callers, Unanswered(e) PROVE Rotation'
  BY <1>3 DEF Unanswered, Rotation
<1>4. ASSUME NEW e \in Callers, Answered(e) PROVE Rotation'
  BY <1>4 DEF Answered, Rotation
<1>5. ASSUME NEW e \in Callers, Unauthorized(e) PROVE Rotation'
  BY <1>5 DEF Unauthorized, Rotation
<1>6. ASSUME NEW e \in Callers, Lock(e) PROVE Rotation'
  BY <1>6 DEF Lock, Rotation
<1>7. ASSUME NEW e \in Callers, Save(e) PROVE Rotation'
  BY <1>7 DEF Save, Rotation
<1>8. ASSUME NEW e \in Callers, RefreshFails(e) PROVE Rotation'
  BY <1>8 DEF RefreshFails, Rotation
<1>9. ASSUME NEW e \in Actors, Granted(e) PROVE Rotation'
  BY <1>9, IssueRotates DEF Granted
<1>10. ASSUME NEW e \in Actors, Refused(e) PROVE Rotation'
  BY <1>10 DEF Refused, Rotation
<1>11. ASSUME NEW e \in Actors, Lost(e) PROVE Rotation'
  <2>1. CASE Issue(e)
    BY <1>11, <2>1, IssueRotates DEF Lost
  <2>2. CASE UNCHANGED <<issued, live, rotates, spent>>
    BY <2>2 DEF Rotation
  <2> QED
    BY <1>11, <2>1, <2>2 DEF Lost
<1>12. ASSUME TimerFires PROVE Rotation'
  BY <1>12 DEF TimerFires, Rotation
<1>13. ASSUME SchedulerLock PROVE Rotation'
  BY <1>13 DEF SchedulerLock, Rotation
<1>14. ASSUME SchedulerUnlock PROVE Rotation'
  BY <1>14 DEF SchedulerUnlock, Rotation
<1>15. ASSUME SchedulerSave PROVE Rotation'
  BY <1>15 DEF SchedulerSave, Rotation
<1>16. ASSUME SchedulerFails PROVE Rotation'
  BY <1>16 DEF SchedulerFails, Rotation
<1>17. ASSUME SchedulerStops PROVE Rotation'
  BY <1>17 DEF SchedulerStops, Rotation
<1>18. ASSUME Expire PROVE Rotation'
  BY <1>18 DEF Expire, Rotation
<1>19. CASE UNCHANGED vars
  BY <1>19 DEF vars, Rotation
<1> QED
  BY <1>1, <1>2, <1>3, <1>4, <1>5, <1>6, <1>7, <1>8, <1>9, <1>10,
     <1>11, <1>12, <1>13, <1>14, <1>15, <1>16, <1>17, <1>18, <1>19
  DEF Next, CallerStep, GrantStep, SchedulerStep

\* Steps that do not move the token sets, nor anybody into a grant or a save.
LEMMA KeptFrame ==
  ASSUME NewestKept, UNCHANGED <<stored, issued, rotates, faults, got, cur>>,
         \A a \in Actors : pc'[a] = "save" <=> pc[a] = "save",
         \A c \in Callers : pc'[c] = "grant" => pc[c] = "grant"
  PROVE  NewestKept'
<1>1. stored' = stored /\ issued' = issued /\ rotates' = rotates /\ faults' = faults
      /\ got' = got /\ cur' = cur
  OBVIOUS
<1> QED
  BY <1>1 DEF NewestKept, Actors

\* pc in a step that moves one actor.
LEMMA Moved ==
  ASSUME TypeOK, NEW e \in Actors, NEW l, Goto(e, l)
  PROVE  pc'[e] = l /\ \A a \in Actors : a # e => pc'[a] = pc[a]
BY DEF TypeOK, Goto

\* The newest set is stored or about to be saved.
LEMMA KeptStep ==
  ASSUME TypeOK, Mutex, Issued, Rotation, NewestKept, [Next]_vars
  PROVE  NewestKept'
<1> USE TokenAssumption DEF Actors
<1>1. ASSUME NEW e \in Callers, Begin(e) PROVE NewestKept'
  <2>1. PICK l : Goto(e, l) /\ l \notin {"save", "grant"} /\ pc[e] # "save"
    BY <1>1 DEF Begin, Returns
  <2>2. UNCHANGED <<stored, issued, rotates, faults, got, cur>>
    BY <1>1 DEF Begin, service, grant
  <2> QED
    BY <2>1, <2>2, Moved, KeptFrame DEF Actors
<1>2. ASSUME NEW e \in Callers, Send(e) PROVE NewestKept'
  <2>1. PICK l : Goto(e, l) /\ l \notin {"save", "grant"} /\ pc[e] # "save"
    BY <1>2 DEF Send, Returns
  <2>2. UNCHANGED <<stored, issued, rotates, faults, got, cur>>
    BY <1>2 DEF Send, service, grant
  <2> QED
    BY <2>1, <2>2, Moved, KeptFrame DEF Actors
<1>3. ASSUME NEW e \in Callers, Unanswered(e) PROVE NewestKept'
  <2>1. PICK l : Goto(e, l) /\ l \notin {"save", "grant"} /\ pc[e] # "save"
    BY <1>3 DEF Unanswered, Returns
  <2>2. UNCHANGED <<stored, issued, rotates, faults, got, cur>>
    BY <1>3 DEF Unanswered, service, grant
  <2> QED
    BY <2>1, <2>2, Moved, KeptFrame DEF Actors
<1>4. ASSUME NEW e \in Callers, Answered(e) PROVE NewestKept'
  <2>1. PICK l : Goto(e, l) /\ l \notin {"save", "grant"} /\ pc[e] # "save"
    BY <1>4 DEF Answered, Returns
  <2>2. UNCHANGED <<stored, issued, rotates, faults, got, cur>>
    BY <1>4 DEF Answered, service, grant
  <2> QED
    BY <2>1, <2>2, Moved, KeptFrame DEF Actors
<1>5. ASSUME NEW e \in Callers, Unauthorized(e) PROVE NewestKept'
  <2>1. PICK l : Goto(e, l) /\ l \notin {"save", "grant"} /\ pc[e] # "save"
    BY <1>5 DEF Unauthorized, Returns
  <2>2. UNCHANGED <<stored, issued, rotates, faults, got, cur>>
    BY <1>5 DEF Unauthorized, service, grant
  <2> QED
    BY <2>1, <2>2, Moved, KeptFrame DEF Actors
<1>6. ASSUME NEW e \in Callers, Lock(e) PROVE NewestKept'
  BY <1>6 DEF Lock, Tokens, Goto, Returns, Issue, service, grant, request, TypeOK, Mutex, InMutex, Issued,
     Rotation, NewestKept
<1>7. ASSUME NEW e \in Callers, Save(e) PROVE NewestKept'
  BY <1>7 DEF Save, Tokens, Goto, Returns, Issue, service, grant, request, TypeOK, Mutex, InMutex, Issued,
     Rotation, NewestKept
<1>8. ASSUME NEW e \in Callers, RefreshFails(e) PROVE NewestKept'
  BY <1>8 DEF RefreshFails, Tokens, Goto, Returns, Issue, service, grant, request, TypeOK, Mutex, InMutex, Issued,
     Rotation, NewestKept
<1>9. ASSUME NEW e \in Actors, Granted(e) PROVE NewestKept'
  <2>1. /\ issued \in Nat /\ stored \in Nat /\ stored <= issued
        /\ got[Scheduler] \in Nat /\ got \in [Actors -> Nat]
    BY DEF TypeOK, Tokens, Issued
  <2>2. /\ issued' = issued + 1 /\ UNCHANGED <<stored, rotates, faults, cur>>
        /\ got' = [got EXCEPT ![e] = issued + 1]
        /\ pc'[e] = "save" /\ \A a \in Actors : a # e => pc'[a] = pc[a]
    BY <1>9, Moved DEF Granted, Issue
  <2>3. rotates => cur[e] = issued
    BY <1>9, IssueRotates DEF Granted
  <2>4. CASE e \in Callers
    <3>1. \A c \in Callers : c # e => pc[c] \notin {"save", "grant"}
      BY <1>9, <2>4 DEF Granted, Mutex, InMutex
    <3>2. rotates /\ faults = 0 => pc[Scheduler] # "save"
      BY <1>9, <2>1, <2>3, <2>4 DEF Granted, NewestKept
    <3> QED
      BY <2>1, <2>2, <2>4, <3>1, <3>2 DEF NewestKept
  <2>5. CASE e = Scheduler
    <3>1. \A c \in Callers : pc[c] \notin {"save", "grant"}
      BY <1>9, <2>5 DEF Granted, Mutex, InMutex
    <3> QED
      BY <2>1, <2>2, <2>5, <3>1 DEF NewestKept
  <2> QED
    BY <2>4, <2>5
<1>10. ASSUME NEW e \in Actors, Refused(e) PROVE NewestKept'
  BY <1>10 DEF Refused, Tokens, Goto, Returns, Issue, service, grant, request, TypeOK, Mutex, InMutex, Issued,
     Rotation, NewestKept
<1>11. ASSUME NEW e \in Actors, Lost(e) PROVE NewestKept'
  BY <1>11 DEF Lost, Tokens, Goto, Returns, Issue, service, grant, request, TypeOK, Mutex, InMutex, Issued,
     Rotation, NewestKept
<1>12. ASSUME TimerFires PROVE NewestKept'
  BY <1>12 DEF TimerFires, Tokens, Goto, Returns, Issue, service, grant, request, TypeOK, Mutex, InMutex, Issued,
     Rotation, NewestKept
<1>13. ASSUME SchedulerLock PROVE NewestKept'
  BY <1>13 DEF SchedulerLock, Tokens, Goto, Returns, Issue, service, grant, request, TypeOK, Mutex, InMutex, Issued,
     Rotation, NewestKept
<1>14. ASSUME SchedulerUnlock PROVE NewestKept'
  BY <1>14 DEF SchedulerUnlock, Tokens, Goto, Returns, Issue, service, grant, request, TypeOK, Mutex, InMutex, Issued,
     Rotation, NewestKept
<1>15. ASSUME SchedulerSave PROVE NewestKept'
  BY <1>15 DEF SchedulerSave, Tokens, Goto, Returns, Issue, service, grant, request, TypeOK, Mutex, InMutex, Issued,
     Rotation, NewestKept
<1>16. ASSUME SchedulerFails PROVE NewestKept'
  BY <1>16 DEF SchedulerFails, Tokens, Goto, Returns, Issue, service, grant, request, TypeOK, Mutex, InMutex, Issued,
     Rotation, NewestKept
<1>17. ASSUME SchedulerStops PROVE NewestKept'
  BY <1>17 DEF SchedulerStops, Tokens, Goto, Returns, Issue, service, grant, request, TypeOK, Mutex, InMutex, Issued,
     Rotation, NewestKept
<1>18. ASSUME Expire PROVE NewestKept'
  BY <1>18 DEF Expire, Tokens, Goto, Returns, Issue, service, grant, request, TypeOK, Mutex, InMutex, Issued,
     Rotation, NewestKept
<1>19. CASE UNCHANGED vars
  BY <1>19 DEF vars, Tokens, Goto, Returns, Issue, service, grant, request, TypeOK, Mutex, InMutex, Issued,
     Rotation, NewestKept
<1> QED
  BY <1>1, <1>2, <1>3, <1>4, <1>5, <1>6, <1>7, <1>8, <1>9, <1>10,
     <1>11, <1>12, <1>13, <1>14, <1>15, <1>16, <1>17, <1>18, <1>19
  DEF Next, CallerStep, GrantStep, SchedulerStep

\* A step of a request that does not end a grant.
LEMMA RequestBlame ==
  ASSUME TypeOK, Blame, NEW e \in Callers, NEW l, Goto(e, l),
         l \notin {"refused", "transient"},
         \A c \in Callers : c # e => ret'[c] = ret[c],
         ret'[e] # "ErrRefreshFailed" \/ ret'[e] = ret[e],
         l \notin {"idle", "stopped"} => ret'[e] = "none",
         stored' \in Nat, stored' >= stored, UNCHANGED <<faults, cur, got>>
  PROVE  Blame'
<1> DEFINE Spared(c) == faults > 0 \/ got[Scheduler] > cur[c]
<1> USE TokenAssumption DEF Actors
<1>1. faults' = faults /\ cur' = cur /\ got' = got /\ \A c \in Callers : Spared(c)' <=> Spared(c)
  OBVIOUS
<1>2. pc'[e] = l /\ \A a \in Actors : a # e => pc'[a] = pc[a]
  BY Moved
<1>3. \A a \in Actors : pc'[a] = "transient" => faults' > 0
  BY <1>1, <1>2 DEF Blame
<1>4. \A c \in Callers : pc'[c] = "refused" => Spared(c)'
  BY <1>1, <1>2 DEF Blame
<1>5. \A c \in Callers : pc'[c] \notin {"idle", "stopped"} => ret'[c] = "none"
  BY <1>2 DEF Blame
<1>6. \A c \in Callers : ret'[c] = "ErrRefreshFailed" => Spared(c)'
  BY <1>1 DEF Blame, RefreshFailsForAReason
<1>7. cur[Scheduler] \in Nat /\ stored \in Nat
  BY DEF TypeOK
<1>8. pc'[Scheduler] \in {"refused", "dead"} => faults' > 0 \/ cur'[Scheduler] < stored'
  BY <1>1, <1>2, <1>7 DEF Blame
<1> QED
  BY <1>3, <1>4, <1>5, <1>6, <1>8 DEF Blame, RefreshFailsForAReason

\* With refresh tokens good for one use, a refused grant used an old one.
LEMMA RefusedOld ==
  ASSUME TypeOK, Issued, Rotation, NEW a \in Actors, pc[a] = "grant", cur[a] \in spent
  PROVE  rotates /\ cur[a] \in 1 .. issued - 1
BY DEF Rotation, Issued, TypeOK

\* A failed grant has a cause.
LEMMA BlameStep ==
  ASSUME TypeOK, Mutex, Issued, Rotation, NewestKept, Blame, [Next]_vars
  PROVE  Blame'
<1> USE TokenAssumption DEF Actors
<1>1. ASSUME NEW e \in Callers, Begin(e) PROVE Blame'
  <2>1. stored \in Nat /\ stored' \in Nat /\ stored' >= stored
    BY <1>1 DEF Begin, TypeOK
  <2>2. UNCHANGED <<faults, cur, got>>
    BY <1>1 DEF Begin, service, grant
  <2>3. PICK l : /\ Goto(e, l) /\ l \notin {"refused", "transient"}
                 /\ l \notin {"idle", "stopped"} => ret'[e] = "none"
    BY <1>1 DEF Begin, Returns, Blame, TypeOK, request
  <2>4. \A c \in Callers : c # e => ret'[c] = ret[c]
    BY <1>1 DEF Begin, Returns, TypeOK, request
  <2>5. ret'[e] # "ErrRefreshFailed" \/ ret'[e] = ret[e]
    BY <1>1 DEF Begin, Returns, TypeOK, request
  <2> QED
    BY <2>1, <2>2, <2>3, <2>4, <2>5, RequestBlame
<1>2. ASSUME NEW e \in Callers, Send(e) PROVE Blame'
  <2>1. stored \in Nat /\ stored' \in Nat /\ stored' >= stored
    BY <1>2 DEF Send, TypeOK
  <2>2. UNCHANGED <<faults, cur, got>>
    BY <1>2 DEF Send, service, grant
  <2>3. PICK l : /\ Goto(e, l) /\ l \notin {"refused", "transient"}
                 /\ l \notin {"idle", "stopped"} => ret'[e] = "none"
    BY <1>2 DEF Send, Returns, Blame, TypeOK, request
  <2>4. \A c \in Callers : c # e => ret'[c] = ret[c]
    BY <1>2 DEF Send, Returns, TypeOK, request
  <2>5. ret'[e] # "ErrRefreshFailed" \/ ret'[e] = ret[e]
    BY <1>2 DEF Send, Returns, TypeOK, request
  <2> QED
    BY <2>1, <2>2, <2>3, <2>4, <2>5, RequestBlame
<1>3. ASSUME NEW e \in Callers, Unanswered(e) PROVE Blame'
  <2>1. stored \in Nat /\ stored' \in Nat /\ stored' >= stored
    BY <1>3 DEF Unanswered, TypeOK
  <2>2. UNCHANGED <<faults, cur, got>>
    BY <1>3 DEF Unanswered, service, grant
  <2>3. PICK l : /\ Goto(e, l) /\ l \notin {"refused", "transient"}
                 /\ l \notin {"idle", "stopped"} => ret'[e] = "none"
    BY <1>3 DEF Unanswered, Returns, Blame, TypeOK, request
  <2>4. \A c \in Callers : c # e => ret'[c] = ret[c]
    BY <1>3 DEF Unanswered, Returns, TypeOK, request
  <2>5. ret'[e] # "ErrRefreshFailed" \/ ret'[e] = ret[e]
    BY <1>3 DEF Unanswered, Returns, TypeOK, request
  <2> QED
    BY <2>1, <2>2, <2>3, <2>4, <2>5, RequestBlame
<1>4. ASSUME NEW e \in Callers, Answered(e) PROVE Blame'
  <2>1. stored \in Nat /\ stored' \in Nat /\ stored' >= stored
    BY <1>4 DEF Answered, TypeOK
  <2>2. UNCHANGED <<faults, cur, got>>
    BY <1>4 DEF Answered, service, grant
  <2>3. PICK l : /\ Goto(e, l) /\ l \notin {"refused", "transient"}
                 /\ l \notin {"idle", "stopped"} => ret'[e] = "none"
    BY <1>4 DEF Answered, Returns, Blame, TypeOK, request
  <2>4. \A c \in Callers : c # e => ret'[c] = ret[c]
    BY <1>4 DEF Answered, Returns, TypeOK, request
  <2>5. ret'[e] # "ErrRefreshFailed" \/ ret'[e] = ret[e]
    BY <1>4 DEF Answered, Returns, TypeOK, request
  <2> QED
    BY <2>1, <2>2, <2>3, <2>4, <2>5, RequestBlame
<1>5. ASSUME NEW e \in Callers, Unauthorized(e) PROVE Blame'
  <2>1. stored \in Nat /\ stored' \in Nat /\ stored' >= stored
    BY <1>5 DEF Unauthorized, TypeOK
  <2>2. UNCHANGED <<faults, cur, got>>
    BY <1>5 DEF Unauthorized, service, grant
  <2>3. PICK l : /\ Goto(e, l) /\ l \notin {"refused", "transient"}
                 /\ l \notin {"idle", "stopped"} => ret'[e] = "none"
    BY <1>5 DEF Unauthorized, Returns, Blame, TypeOK, request
  <2>4. \A c \in Callers : c # e => ret'[c] = ret[c]
    BY <1>5 DEF Unauthorized, Returns, TypeOK, request
  <2>5. ret'[e] # "ErrRefreshFailed" \/ ret'[e] = ret[e]
    BY <1>5 DEF Unauthorized, Returns, TypeOK, request
  <2> QED
    BY <2>1, <2>2, <2>3, <2>4, <2>5, RequestBlame
<1>6. ASSUME NEW e \in Callers, Lock(e) PROVE Blame'
  BY <1>6 DEF Lock, Tokens, Goto, Returns, Issue, service, grant, request, TypeOK, Mutex, InMutex, Issued,
     Blame, RefreshFailsForAReason
<1>7. ASSUME NEW e \in Callers, Save(e) PROVE Blame'
  <2>1. stored \in Nat /\ stored' \in Nat /\ stored' >= stored
    BY <1>7 DEF Save, TypeOK, Issued
  <2>2. UNCHANGED <<faults, cur, got>>
    BY <1>7 DEF Save, service, grant
  <2>3. PICK l : /\ Goto(e, l) /\ l \notin {"refused", "transient"}
                 /\ l \notin {"idle", "stopped"} => ret'[e] = "none"
    BY <1>7 DEF Save, Returns, Blame, TypeOK, request
  <2>4. \A c \in Callers : c # e => ret'[c] = ret[c]
    BY <1>7 DEF Save, Returns, TypeOK, request
  <2>5. ret'[e] # "ErrRefreshFailed" \/ ret'[e] = ret[e]
    BY <1>7 DEF Save, Returns, TypeOK, request
  <2> QED
    BY <2>1, <2>2, <2>3, <2>4, <2>5, RequestBlame
<1>8. ASSUME NEW e \in Callers, RefreshFails(e) PROVE Blame'
  BY <1>8 DEF RefreshFails, Tokens, Goto, Returns, Issue, service, grant, request, TypeOK, Mutex, InMutex, Issued,
     Blame, RefreshFailsForAReason
<1>9. ASSUME NEW e \in Actors, Granted(e) PROVE Blame'
  BY <1>9 DEF Granted, Tokens, Goto, Returns, Issue, service, grant, request, TypeOK, Mutex, InMutex, Issued,
     Blame, RefreshFailsForAReason
<1>10. ASSUME NEW e \in Actors, Refused(e) PROVE Blame'
  <2>1. rotates /\ cur[e] \in 1 .. issued - 1
    BY <1>10, RefusedOld DEF Refused
  <2>2. issued \in Nat /\ stored \in Nat /\ faults \in Nat /\ cur[Scheduler] \in Nat
    BY DEF TypeOK, Tokens
  <2>3. /\ UNCHANGED <<stored, faults, cur, got, ret>>
        /\ pc'[e] = "refused" /\ \A a \in Actors : a # e => pc'[a] = pc[a]
    BY <1>10, Moved DEF Refused, service, grant, request
  <2>4. CASE e \in Callers
    <3>1. \A a \in Callers : pc[a] # "save"
      BY <1>10, <2>4 DEF Refused, Mutex, InMutex
    <3>2. faults = 0 => got[Scheduler] > cur[e]
      BY <1>10, <2>1, <2>2, <2>4, <3>1 DEF Refused, NewestKept, Issued
    <3>3. faults > 0 \/ got[Scheduler] > cur[e]
      BY <2>2, <3>2
    <3>4. faults' = faults /\ got' = got /\ cur' = cur /\ ret' = ret /\ stored' = stored
      BY <2>3
    <3>5. \A a \in Actors : pc'[a] = "transient" => faults' > 0
      BY <2>3, <3>4 DEF Blame
    <3>6. \A c \in Callers : pc'[c] = "refused" => faults' > 0 \/ got'[Scheduler] > cur'[c]
      BY <2>3, <3>3, <3>4 DEF Blame
    <3>7. \A c \in Callers : pc'[c] \notin {"idle", "stopped"} => ret'[c] = "none"
      BY <1>10, <2>3, <2>4, <3>4 DEF Refused, Blame
    <3>8. RefreshFailsForAReason'
      BY <3>4 DEF Blame, RefreshFailsForAReason
    <3>9. pc'[Scheduler] \in {"refused", "dead"} => faults' > 0 \/ cur'[Scheduler] < stored'
      BY <2>3, <2>4, <3>4 DEF Blame
    <3> QED
      BY <3>5, <3>6, <3>7, <3>8, <3>9 DEF Blame
  <2>5. CASE e = Scheduler
    <3>1. \A a \in Actors : pc[a] # "save"
      BY <1>10, <2>5 DEF Refused, Mutex, InMutex
    <3>2. faults = 0 => cur[Scheduler] < stored
      BY <1>10, <2>1, <2>2, <2>5, <3>1 DEF Refused, NewestKept, Issued
    <3> QED
      BY <2>2, <2>3, <2>5, <3>2 DEF Blame, RefreshFailsForAReason
  <2> QED
    BY <2>4, <2>5
<1>11. ASSUME NEW e \in Actors, Lost(e) PROVE Blame'
  BY <1>11 DEF Lost, Tokens, Goto, Returns, Issue, service, grant, request, TypeOK, Mutex, InMutex, Issued,
     Blame, RefreshFailsForAReason
<1>12. ASSUME TimerFires PROVE Blame'
  BY <1>12 DEF TimerFires, Tokens, Goto, Returns, Issue, service, grant, request, TypeOK, Mutex, InMutex, Issued,
     Blame, RefreshFailsForAReason
<1>13. ASSUME SchedulerLock PROVE Blame'
  BY <1>13 DEF SchedulerLock, Tokens, Goto, Returns, Issue, service, grant, request, TypeOK, Mutex, InMutex, Issued,
     Blame, RefreshFailsForAReason
<1>14. ASSUME SchedulerUnlock PROVE Blame'
  BY <1>14 DEF SchedulerUnlock, Tokens, Goto, Returns, Issue, service, grant, request, TypeOK, Mutex, InMutex, Issued,
     Blame, RefreshFailsForAReason
<1>15. ASSUME SchedulerSave PROVE Blame'
  BY <1>15 DEF SchedulerSave, Tokens, Goto, Returns, Issue, service, grant, request, TypeOK, Mutex, InMutex, Issued,
     Blame, RefreshFailsForAReason
<1>16. ASSUME SchedulerFails PROVE Blame'
  BY <1>16 DEF SchedulerFails, Tokens, Goto, Returns, Issue, service, grant, request, TypeOK, Mutex, InMutex, Issued,
     Blame, RefreshFailsForAReason
<1>17. ASSUME SchedulerStops PROVE Blame'
  BY <1>17 DEF SchedulerStops, Tokens, Goto, Returns, Issue, service, grant, request, TypeOK, Mutex, InMutex, Issued,
     Blame, RefreshFailsForAReason
<1>18. ASSUME Expire PROVE Blame'
  BY <1>18 DEF Expire, Tokens, Goto, Returns, Issue, service, grant, request, TypeOK, Mutex, InMutex, Issued,
     Blame, RefreshFailsForAReason
<1>19. CASE UNCHANGED vars
  BY <1>19 DEF vars, Tokens, Goto, Returns, Issue, service, grant, request, TypeOK, Mutex, InMutex, Issued,
     Blame, RefreshFailsForAReason
<1> QED
  BY <1>1, <1>2, <1>3, <1>4, <1>5, <1>6, <1>7, <1>8, <1>9, <1>10,
     <1>11, <1>12, <1>13, <1>14, <1>15, <1>16, <1>17, <1>18, <1>19
  DEF Next, CallerStep, GrantStep, SchedulerStep
-----------------------------------------------------------------------------

\* The first state: nobody is in the mutex, and one set has been issued.
LEMMA TokenInit ==
  ASSUME Init
  PROVE  TokenInv
<1> USE TokenAssumption DEF Init, Actors
<1>1. PICK cast \in Casts :
        pc = [a \in Actors |-> CASE a \notin cast -> "stopped"
                                 [] a = Scheduler -> "wait"
                                 [] OTHER -> "idle"]
  OBVIOUS
<1>2. /\ pc[Scheduler] \in {"stopped", "wait"}
      /\ \A c \in Callers : pc[c] \in {"stopped", "idle"}
  BY <1>1
<1>3. pc \in [Actors -> {"idle", "stopped", "wait"}]
  BY <1>1
<1>4. stored \in 0 .. 1 /\ MaxIssued \in Nat \ {0} /\ rotates \in BOOLEAN
  OBVIOUS
<1>5. TypeOK
  BY <1>2, <1>3, <1>4 DEF TypeOK, Tokens, Extra
<1>6. Attempts /\ Mutex
  BY <1>2 DEF Attempts, Mutex, InMutex
<1>7. Issued
  BY <1>2, <1>4 DEF Issued
<1>8. Rotation
  BY <1>4 DEF Rotation
<1>9. NewestKept
  BY <1>2, <1>4 DEF NewestKept
<1>10. Blame
  BY <1>2 DEF Blame, RefreshFailsForAReason
<1> QED
  BY <1>5, <1>6, <1>7, <1>8, <1>9, <1>10 DEF TokenInv

\* In every state the mutex has one holder, only the newest refresh token is
\* good where tokens rotate, and a failed grant has a cause: the inductive
\* invariant of the requests (client.go) and the scheduler (scheduler.go).
THEOREM TokenInvariant == Spec => []TokenInv
<1>1. Init => TokenInv
  BY TokenInit
<1>2. TokenInv /\ [Next]_vars => TokenInv'
  BY TypesStep, MutexStep, IssuedStep, RotationStep, KeptStep, BlameStep DEF TokenInv
<1> QED
  BY <1>1, <1>2, PTL DEF Spec

\* Every variable keeps its type, and no request and no grant is ever sent
\* more often than its budget, whoever refreshes meanwhile (client.go:98).
THEOREM TypeCorrect == Spec => []TypeOK
<1>1. TokenInv => TypeOK
  BY DEF TokenInv
<1> QED
  BY <1>1, TokenInvariant, PTL

\* However many requests refresh at once, epicTokenProvider.Refresh fails
\* after a lost answer only, or while the scheduler has a set to save.
THEOREM RefreshesFailForAReason == Spec => []RefreshFailsForAReason
<1>1. TokenInv => RefreshFailsForAReason
  BY DEF TokenInv, Blame
<1> QED
  BY <1>1, TokenInvariant, PTL

\* RefreshScheduler.Run ends with AuthFatal after a lost answer only, or when
\* a request refreshed after it had loaded its token set.
THEOREM SchedulerDeathExplained == Spec => []SchedulerDiesOfARaceOnly
<1>1. TokenInv => SchedulerDiesOfARaceOnly
  BY DEF TokenInv, Blame, SchedulerDiesOfARaceOnly
<1> QED
  BY <1>1, TokenInvariant, PTL

\* A request that leaves "save" stores the newest set there is, since it
\* has held the mutex from the grant on.
THEOREM SavesGoForward == Spec => StoreNeverGoesBack
<1>1. ASSUME TokenInv, Next, NEW c \in Callers, pc[c] = "save", pc'[c] # "save"
      PROVE  stored' >= stored
  <2>1. TypeOK /\ stored \in Nat /\ issued \in Nat /\ stored <= issued
    BY <1>1 DEF TokenInv, Issued, TypeOK, Tokens
  <2>2. ASSUME NEW e \in Callers, Save(e) PROVE stored' >= stored
    <3>1. got[e] = issued /\ stored' = got[e]
      BY <1>1, <2>2 DEF Save, TokenInv, Issued
    <3> QED
      BY <2>1, <3>1
  <2>3. ASSUME SchedulerSave PROVE FALSE
    <3>1. c \in Actors /\ c # Scheduler /\ Goto(Scheduler, "wait")
      BY <2>3, TokenAssumption DEF SchedulerSave, Actors
    <3> QED
      BY <1>1, <2>1, <3>1 DEF TypeOK, Goto
  <2>4. CASE stored' = stored
    BY <2>1, <2>4
  <2>5. (\E e \in Callers : Save(e)) \/ SchedulerSave \/ stored' = stored
    BY <1>1 DEF Next, CallerStep, GrantStep, SchedulerStep, Begin, Send, Unanswered,
       Answered, Unauthorized, Lock, RefreshFails, Granted, Refused, Lost, TimerFires,
       SchedulerLock, SchedulerUnlock, SchedulerFails, SchedulerStops, Expire
  <2> QED
    BY <2>2, <2>3, <2>4, <2>5
<1>2. TokenInv /\ [Next]_vars
        => [(\E c \in Callers : pc[c] = "save" /\ pc'[c] # "save")
              => stored' >= stored]_vars
  BY <1>1
<1> QED
  BY <1>2, TokenInvariant, PTL DEF Spec, StoreNeverGoesBack
=============================================================================
