-------------------------- MODULE GrantBrokerProofs --------------------------
(***************************************************************************)
(* The grant broker for any number of logins and any values of the         *)
(* timeouts.                                                               *)
(***************************************************************************)
EXTENDS GrantBroker, TLAPS

Asleep == {"waiting", "woken"}

\* Where a login and its task can be relative to each other, and what a task
\* that has not finished has not done yet.
Stages ==
    \A h \in Helpers :
        /\ helper[h] = "idle" => task[h] = "none"
        /\ task[h] = "none" => helper[h] \in {"idle", "denied"}
        /\ task[h] # "done" => taken[h] = 0 /\ answer[h] = "none"
        /\ task[h] \in Asleep => kind[h] = "unlock" /\ giveUp[h] # 0
        /\ helper[h] \in {"asking", "timedout"} => giveUp[h] # 0
        /\ helper[h] \in {"idle", "connected"} => giveUp[h] = 0

\* The grant in memory is the latest one, nobody has it yet, and nobody has one
\* that was never issued.
Numbering ==
    /\ expires # 0 => issues # 0 /\ expires = issuedAt + GrantTtl
    /\ \A h \in Helpers :
         /\ taken[h] <= issues
         /\ expires # 0 => taken[h] # issues
    /\ \A g, h \in Helpers : g # h /\ taken[g] # 0 => taken[g] # taken[h]

\* A positive answer is backed by a grant, the right user and a log record.
Backing ==
    \A h \in Helpers :
        /\ answer[h] = "1" => taken[h] # 0 /\ kind[h] = "unlock" /\ h \in logged
        /\ helper[h] = "granted" => answer[h] = "1"

\* How late a task can be relative to its login while the loop does not stall.
Punctual ==
    Prompt => \A h \in Helpers :
        /\ task[h] \in Running => now <= due[h] + Lag
        /\ task[h] = "reading" /\ giveUp[h] # 0 => due[h] + HelperWait <= giveUp[h]
        /\ task[h] \in Asleep =>
             /\ due[h] <= deadline[h]
             /\ deadline[h] + Margin <= giveUp[h] + Lag
        /\ helper[h] = "timedout" => task[h] = "done"

\* A request that may consume is one whose login still waits (or was killed)
\* unless the loop stalls; without any such fault consuming and answering "1" coincide.
Delivery ==
    /\ Prompt => \A h \in Helpers :
         task[h] \in Running /\ giveUp[h] # 0 => helper[h] \in {"asking", "killed"}
    /\ Faults \subseteq {"kill"} =>
         /\ disk = TRUE
         /\ \A h \in Helpers : taken[h] # 0 =>
              answer[h] = "1" /\ helper[h] \in {"asking", "killed", "granted"}

IndInv ==
    /\ TypeOK
    /\ NoLostWakeup /\ Stages /\ Numbering /\ Backing /\ Punctual /\ Delivery

----------------------------------------------------------------------------
\* The process ends, and its tasks with it, whether it crashed or not.
LEMMA AbortKeepsTypes ==
    ASSUME TypeOK, NEW reply \in {"eof", "0"}, Abort(reply)
    PROVE  TypeOK'
BY DEF TypeOK, Abort, Forgotten, Running, helpers

\* Every step preserves the types.
LEMMA TypePreserved == TypeOK /\ [Next]_vars => TypeOK'
<1> SUFFICES ASSUME TypeOK, [Next]_vars PROVE TypeOK'
  OBVIOUS
<1> USE BrokerAssumption DEF TypeOK, broker, tasks, helpers
<1>1. CASE Issue
  BY <1>1 DEF Issue, Woken, Least, Running
<1>2. CASE Crash
  BY <1>2, AbortKeepsTypes DEF Crash
<1>3. CASE ToggleDisk
  BY <1>3 DEF ToggleDisk
<1>4. CASE Tick
  BY <1>4 DEF Tick
<1>5. CASE Stop
  BY <1>5 DEF Stop, vars
<1>6. ASSUME NEW h \in Helpers, Serve(h) PROVE TypeOK'
  <2>1. ASSUME Deny(h) PROVE TypeOK'
    BY <2>1 DEF Deny, Finish, Reply
  <2>2. ASSUME Take(h) PROVE TypeOK'
    BY <2>2 DEF Take, Finish, Reply, Remainder
  <2>3. ASSUME NEW u \in Nat, Sleep(h, u) PROVE TypeOK'
    BY <2>3 DEF Sleep, Await, Running
  <2>4. now + PamWait \in Nat /\ deadline[h] \in Nat
    OBVIOUS
  <2> QED
    BY <1>6, <2>1, <2>2, <2>3, <2>4
       DEF Serve, ReadLine, ReadEof, ReadTimeout, Resume, WaitTimeout, Consume
<1>7. ASSUME NEW h \in Helpers, NEW k \in Kinds, Connect(h, k) PROVE TypeOK'
  BY <1>7 DEF Connect, Finish, Reply, Await, Running
<1>8. ASSUME NEW h \in Helpers, Send(h) PROVE TypeOK'
  BY <1>8 DEF Send, HelperWait, Least
<1>9. ASSUME NEW h \in Helpers, RefusePeer(h) PROVE TypeOK'
  BY <1>9 DEF RefusePeer, Least, Gone
<1>10. ASSUME NEW h \in Helpers, Exit(h) PROVE TypeOK'
  BY <1>10 DEF Exit, Gone
<1>11. ASSUME NEW h \in Helpers, GiveUp(h) PROVE TypeOK'
  BY <1>11 DEF GiveUp, Gone
<1>12. ASSUME NEW h \in Helpers, Kill(h) PROVE TypeOK'
  BY <1>12 DEF Kill, Least, Gone
<1>13. ASSUME NEW h \in Helpers, Unreachable(h) PROVE TypeOK'
  BY <1>13 DEF Unreachable, Gone
<1>14. CASE UNCHANGED vars
  BY <1>14 DEF vars
<1> QED
  BY <1>1, <1>2, <1>3, <1>4, <1>5, <1>6, <1>7, <1>8, <1>9, <1>10, <1>11, <1>12, <1>13, <1>14
     DEF Next, Steps, Return

\* The end of the process preserves the inductive invariant: what a task had
\* consumed it had answered, and what it had not answered it had not consumed.
LEMMA AbortPreserves ==
    ASSUME IndInv, NEW reply \in {"eof", "0"}, Abort(reply)
    PROVE  IndInv'
<1> USE DEF TypeOK, Abort, Forgotten, helpers
<1>0. TypeOK /\ TypeOK'
  BY AbortKeepsTypes DEF IndInv
<1>1. NoLostWakeup'
  BY <1>0 DEF NoLostWakeup, Live, Running
<1>2. Stages'
  BY <1>0 DEF IndInv, Stages, Asleep, Running, Gone
<1>3. Numbering'
  BY <1>0 DEF IndInv, Numbering
<1>4. Backing'
  BY <1>0 DEF IndInv, Backing, Stages, Running
<1>5. Punctual'
  BY <1>0 DEF IndInv, Punctual, Asleep, Running
<1>6. Delivery'
  BY <1>0 DEF IndInv, Stages, Delivery, Running
<1> QED
  BY <1>0, <1>1, <1>2, <1>3, <1>4, <1>5, <1>6 DEF IndInv

\* Every step preserves the inductive invariant.
LEMMA IndInvPreserved == IndInv /\ [Next]_vars => IndInv'
<1> SUFFICES ASSUME IndInv, [Next]_vars PROVE IndInv'
  OBVIOUS
<1> USE BrokerAssumption, MarginAssumption
    DEF IndInv, TypeOK, broker, tasks, helpers
<1>0. TypeOK'
  BY TypePreserved
<1> DEFINE Rest == NoLostWakeup /\ Stages /\ Numbering /\ Backing /\ Punctual /\ Delivery
<1>1. ASSUME Issue PROVE Rest'
  <2>1. NoLostWakeup'
    BY <1>0, <1>1 DEF Issue, Woken, Least, NoLostWakeup, Live
  <2>2. Stages'
    BY <1>0, <1>1 DEF Issue, Woken, Least, Stages, Asleep, Running, Gone
  <2>3. Numbering'
    BY <1>0, <1>1 DEF Issue, Woken, Least, Numbering
  <2>4. Backing'
    BY <1>0, <1>1 DEF Issue, Woken, Least, Backing
  <2>5. Punctual'
    BY <1>0, <1>1 DEF Issue, Woken, Least, Punctual, Asleep, Running, HelperWait
  <2>6. Delivery'
    BY <1>0, <1>1 DEF Issue, Woken, Least, Asleep, Running, Stages, Delivery
  <2> QED
    BY <1>0, <2>1, <2>2, <2>3, <2>4, <2>5, <2>6
<1>2. ASSUME Crash PROVE Rest'
  BY <1>2, AbortPreserves DEF Crash
<1>3. ASSUME ToggleDisk PROVE Rest'
  <2>1. NoLostWakeup'
    BY <1>0, <1>3 DEF ToggleDisk, NoLostWakeup, Live
  <2>2. Stages'
    BY <1>0, <1>3 DEF ToggleDisk, Stages, Asleep, Running, Gone
  <2>3. Numbering'
    BY <1>0, <1>3 DEF ToggleDisk, Numbering
  <2>4. Backing'
    BY <1>0, <1>3 DEF ToggleDisk, Backing
  <2>5. Punctual'
    BY <1>0, <1>3 DEF ToggleDisk, Punctual, Asleep, Running, HelperWait
  <2>6. Delivery'
    BY <1>0, <1>3 DEF ToggleDisk, Asleep, Running, Stages, Delivery
  <2> QED
    BY <1>0, <2>1, <2>2, <2>3, <2>4, <2>5, <2>6
<1>4. ASSUME Tick PROVE Rest'
  <2>1. NoLostWakeup'
    BY <1>0, <1>4 DEF Tick, NoLostWakeup, Live
  <2>2. Stages'
    BY <1>0, <1>4 DEF Tick, Stages, Asleep, Running, Gone
  <2>3. Numbering'
    BY <1>0, <1>4 DEF Tick, Numbering
  <2>4. Backing'
    BY <1>0, <1>4 DEF Tick, Backing
  <2>5. Punctual'
    BY <1>0, <1>4 DEF Tick, Punctual, Asleep, Running, HelperWait
  <2>6. Delivery'
    BY <1>0, <1>4 DEF Tick, Asleep, Running, Stages, Delivery
  <2> QED
    BY <1>0, <2>1, <2>2, <2>3, <2>4, <2>5, <2>6
<1>5. ASSUME NEW h \in Helpers, task[h] \in Running, Deny(h) PROVE Rest'
  <2>1. NoLostWakeup'
    BY <1>0, <1>5 DEF Deny, Finish, Reply, NoLostWakeup, Live
  <2>2. Stages'
    BY <1>0, <1>5 DEF Deny, Finish, Reply, Stages, Asleep, Running, Gone
  <2>3. Numbering'
    BY <1>0, <1>5 DEF Deny, Finish, Reply, Numbering
  <2>4. Backing'
    BY <1>0, <1>5 DEF Deny, Finish, Reply, Backing, Stages, Running
  <2>5. Punctual'
    BY <1>0, <1>5 DEF Deny, Finish, Reply, Punctual, Asleep, Running, HelperWait
  <2>6. Delivery'
    BY <1>0, <1>5 DEF Deny, Finish, Reply, Asleep, Running, Stages, Delivery
  <2> QED
    BY <1>0, <2>1, <2>2, <2>3, <2>4, <2>5, <2>6
<1>6. ASSUME NEW h \in Helpers, task[h] \in Running, kind[h] = "unlock", giveUp[h] # 0, Take(h) PROVE Rest'
  <2>1. NoLostWakeup'
    BY <1>0, <1>6 DEF Take, Finish, Reply, Remainder, Live, NoLostWakeup, Live
  <2>2. Stages'
    BY <1>0, <1>6 DEF Take, Finish, Reply, Remainder, Live, Stages, Asleep, Running, Gone
  <2>3. Numbering'
    BY <1>0, <1>6 DEF Take, Finish, Reply, Remainder, Live, Numbering
  <2>4. Backing'
    BY <1>0, <1>6 DEF Take, Finish, Reply, Remainder, Live, Backing, Stages, Running, Numbering
  <2>5. Punctual'
    BY <1>0, <1>6 DEF Take, Finish, Reply, Remainder, Live, Punctual, Asleep, Running, HelperWait
  <2>6. Delivery'
    BY <1>0, <1>6 DEF Take, Finish, Reply, Remainder, Live, Asleep, Running, Stages, Delivery, Prompt
  <2> QED
    BY <1>0, <2>1, <2>2, <2>3, <2>4, <2>5, <2>6
<1>7. ASSUME NEW h \in Helpers, ReadLine(h), MayConsume(h), Sleep(h, now + PamWait) PROVE Rest'
  <2>1. NoLostWakeup'
    BY <1>0, <1>7 DEF ReadLine, Sent, MayConsume, Sleep, Await, Live, NoLostWakeup, Live
  <2>2. Stages'
    BY <1>0, <1>7 DEF ReadLine, Sent, MayConsume, Sleep, Await, Live, Stages, Asleep, Running, Gone
  <2>3. Numbering'
    BY <1>0, <1>7 DEF ReadLine, Sent, MayConsume, Sleep, Await, Live, Numbering
  <2>4. Backing'
    BY <1>0, <1>7 DEF ReadLine, Sent, MayConsume, Sleep, Await, Live, Backing
  <2>5. Punctual'
    BY <1>0, <1>7 DEF ReadLine, Sent, MayConsume, Sleep, Await, Live, Punctual, Asleep, Running, HelperWait
  <2>6. Delivery'
    BY <1>0, <1>7 DEF ReadLine, Sent, MayConsume, Sleep, Await, Live, Asleep, Running, Stages, Delivery
  <2> QED
    BY <1>0, <2>1, <2>2, <2>3, <2>4, <2>5, <2>6
<1>8. ASSUME NEW h \in Helpers, Resume(h), Sleep(h, deadline[h]) PROVE Rest'
  <2>1. NoLostWakeup'
    BY <1>0, <1>8 DEF Resume, Sleep, Await, Live, NoLostWakeup, Live
  <2>2. Stages'
    BY <1>0, <1>8 DEF Resume, Sleep, Await, Live, Stages, Asleep, Running, Gone
  <2>3. Numbering'
    BY <1>0, <1>8 DEF Resume, Sleep, Await, Live, Numbering
  <2>4. Backing'
    BY <1>0, <1>8 DEF Resume, Sleep, Await, Live, Backing
  <2>5. Punctual'
    BY <1>0, <1>8 DEF Resume, Sleep, Await, Live, Punctual, Asleep, Running, HelperWait
  <2>6. Delivery'
    BY <1>0, <1>8 DEF Resume, Sleep, Await, Live, Asleep, Running, Stages, Delivery
  <2> QED
    BY <1>0, <2>1, <2>2, <2>3, <2>4, <2>5, <2>6
<1>9. ASSUME NEW h \in Helpers, NEW k \in Kinds, Connect(h, k) PROVE Rest'
  <2>1. NoLostWakeup'
    BY <1>0, <1>9 DEF Connect, Finish, Reply, Await, NoLostWakeup, Live
  <2>2. Stages'
    BY <1>0, <1>9 DEF Connect, Finish, Reply, Await, Stages, Asleep, Running, Gone
  <2>3. Numbering'
    BY <1>0, <1>9 DEF Connect, Finish, Reply, Await, Numbering
  <2>4. Backing'
    BY <1>0, <1>9 DEF Connect, Finish, Reply, Await, Backing, Stages, Running
  <2>5. Punctual'
    BY <1>0, <1>9 DEF Connect, Finish, Reply, Await, Punctual, Asleep, Running, HelperWait, Stages
  <2>6. Delivery'
    BY <1>0, <1>9 DEF Connect, Finish, Reply, Await, Asleep, Running, Stages, Delivery
  <2> QED
    BY <1>0, <2>1, <2>2, <2>3, <2>4, <2>5, <2>6
<1>10. ASSUME NEW h \in Helpers, Send(h) PROVE Rest'
  <2>1. NoLostWakeup'
    BY <1>0, <1>10 DEF Send, Least, NoLostWakeup, Live
  <2>2. Stages'
    BY <1>0, <1>10 DEF Send, Least, Stages, Asleep, Running, Gone, HelperWait
  <2>3. Numbering'
    BY <1>0, <1>10 DEF Send, Least, Numbering
  <2>4. Backing'
    BY <1>0, <1>10 DEF Send, Least, Backing
  <2>5. Punctual'
    BY <1>0, <1>10 DEF Send, Least, Punctual, Asleep, Running, HelperWait, Stages
  <2>6. Delivery'
    BY <1>0, <1>10 DEF Send, Least, Asleep, Running, Stages, Delivery
  <2> QED
    BY <1>0, <2>1, <2>2, <2>3, <2>4, <2>5, <2>6
<1>11. ASSUME NEW h \in Helpers, RefusePeer(h) PROVE Rest'
  <2>1. NoLostWakeup'
    BY <1>0, <1>11 DEF RefusePeer, Least, NoLostWakeup, Live
  <2>2. Stages'
    BY <1>0, <1>11 DEF RefusePeer, Least, Stages, Asleep, Running, Gone
  <2>3. Numbering'
    BY <1>0, <1>11 DEF RefusePeer, Least, Numbering
  <2>4. Backing'
    BY <1>0, <1>11 DEF RefusePeer, Least, Backing
  <2>5. Punctual'
    BY <1>0, <1>11 DEF RefusePeer, Least, Punctual, Asleep, Running, HelperWait
  <2>6. Delivery'
    BY <1>0, <1>11 DEF RefusePeer, Least, Asleep, Running, Stages, Delivery
  <2> QED
    BY <1>0, <2>1, <2>2, <2>3, <2>4, <2>5, <2>6
<1>12. ASSUME NEW h \in Helpers, Exit(h) PROVE Rest'
  <2>1. NoLostWakeup'
    BY <1>0, <1>12 DEF Exit, NoLostWakeup, Live
  <2>2. Stages'
    BY <1>0, <1>12 DEF Exit, Stages, Asleep, Running, Gone
  <2>3. Numbering'
    BY <1>0, <1>12 DEF Exit, Numbering
  <2>4. Backing'
    BY <1>0, <1>12 DEF Exit, Backing
  <2>5. Punctual'
    BY <1>0, <1>12 DEF Exit, Punctual, Asleep, Running, HelperWait, Stages
  <2>6. Delivery'
    BY <1>0, <1>12 DEF Exit, Asleep, Running, Stages, Delivery
  <2> QED
    BY <1>0, <2>1, <2>2, <2>3, <2>4, <2>5, <2>6
<1>13. ASSUME NEW h \in Helpers, GiveUp(h) PROVE Rest'
  <2>1. NoLostWakeup'
    BY <1>0, <1>13 DEF GiveUp, NoLostWakeup, Live
  <2>2. Stages'
    BY <1>0, <1>13 DEF GiveUp, Stages, Asleep, Running, Gone
  <2>3. Numbering'
    BY <1>0, <1>13 DEF GiveUp, Numbering
  <2>4. Backing'
    BY <1>0, <1>13 DEF GiveUp, Backing
  <2>5. Punctual'
    BY <1>0, <1>13 DEF GiveUp, Punctual, Asleep, Running, HelperWait, Stages
  <2>6. Delivery'
    BY <1>0, <1>13, <2>5 DEF GiveUp, Asleep, Running, Stages, Punctual, Delivery
  <2> QED
    BY <1>0, <2>1, <2>2, <2>3, <2>4, <2>5, <2>6
<1>14. ASSUME NEW h \in Helpers, Kill(h) PROVE Rest'
  <2>1. NoLostWakeup'
    BY <1>0, <1>14 DEF Kill, Least, NoLostWakeup, Live
  <2>2. Stages'
    BY <1>0, <1>14 DEF Kill, Least, Stages, Asleep, Running, Gone
  <2>3. Numbering'
    BY <1>0, <1>14 DEF Kill, Least, Numbering
  <2>4. Backing'
    BY <1>0, <1>14 DEF Kill, Least, Backing
  <2>5. Punctual'
    BY <1>0, <1>14 DEF Kill, Least, Punctual, Asleep, Running, HelperWait
  <2>6. Delivery'
    BY <1>0, <1>14 DEF Kill, Least, Asleep, Running, Stages, Delivery
  <2> QED
    BY <1>0, <2>1, <2>2, <2>3, <2>4, <2>5, <2>6
<1>15. ASSUME UNCHANGED vars PROVE Rest'
  <2>1. NoLostWakeup'
    BY <1>0, <1>15 DEF vars, NoLostWakeup, Live
  <2>2. Stages'
    BY <1>0, <1>15 DEF vars, Stages, Asleep, Running, Gone
  <2>3. Numbering'
    BY <1>0, <1>15 DEF vars, Numbering
  <2>4. Backing'
    BY <1>0, <1>15 DEF vars, Backing
  <2>5. Punctual'
    BY <1>0, <1>15 DEF vars, Punctual, Asleep, Running, HelperWait
  <2>6. Delivery'
    BY <1>0, <1>15 DEF vars, Asleep, Running, Stages, Delivery
  <2> QED
    BY <1>0, <2>1, <2>2, <2>3, <2>4, <2>5, <2>6
<1>19. ASSUME NEW h \in Helpers, Unreachable(h) PROVE Rest'
  <2>1. NoLostWakeup'
    BY <1>0, <1>19 DEF Unreachable, NoLostWakeup, Live
  <2>2. Stages'
    BY <1>0, <1>19 DEF Unreachable, Stages, Asleep, Running, Gone
  <2>3. Numbering'
    BY <1>0, <1>19 DEF Unreachable, Numbering
  <2>4. Backing'
    BY <1>0, <1>19 DEF Unreachable, Backing
  <2>5. Punctual'
    BY <1>0, <1>19 DEF Unreachable, Punctual, Asleep, Running, HelperWait, Stages
  <2>6. Delivery'
    BY <1>0, <1>19 DEF Unreachable, Asleep, Running, Stages, Delivery
  <2> QED
    BY <1>0, <2>1, <2>2, <2>3, <2>4, <2>5, <2>6
<1> HIDE DEF Rest
<1>16. ASSUME NEW h \in Helpers, Serve(h) PROVE Rest'
  <2>1. CASE task[h] \in Running /\ Deny(h)
    BY <1>5, <2>1
  <2>2. CASE ReadLine(h) /\ MayConsume(h)
    <3>1. task[h] \in Running /\ kind[h] = "unlock" /\ giveUp[h] # 0
      BY <2>2 DEF ReadLine, MayConsume, Running, Sent
    <3> QED
      BY <1>5, <1>6, <1>7, <2>2, <3>1 DEF ReadLine, Consume
  <2>3. CASE Resume(h)
    <3>1. task[h] \in Running /\ kind[h] = "unlock" /\ giveUp[h] # 0
      BY <2>3 DEF Resume, Running, Stages, Asleep
    <3> QED
      BY <1>5, <1>6, <1>8, <2>3, <3>1 DEF Resume, Consume
  <2> QED
    BY <1>16, <2>1, <2>2, <2>3
       DEF Serve, ReadLine, ReadEof, ReadTimeout, WaitTimeout, Running
<1>17. ASSUME Stop PROVE Rest'
  BY <1>15, <1>17 DEF Stop
<1>18. Rest'
  BY <1>1, <1>2, <1>3, <1>4, <1>9, <1>10, <1>11, <1>12, <1>13, <1>14, <1>15, <1>16, <1>17,
     <1>19 DEF Next, Steps, Return
<1> QED
  BY <1>0, <1>18 DEF Rest

\* The inductive invariant holds initially.
LEMMA IndInvInitially == Init => IndInv
<1> SUFFICES ASSUME Init PROVE IndInv
  OBVIOUS
<1> USE DEF Init
<1>1. TypeOK
  BY DEF TypeOK, Kinds, Running
<1>2. NoLostWakeup /\ Stages /\ Punctual
  BY DEF NoLostWakeup, Stages, Asleep, Punctual, Running
<1>3. Numbering /\ Backing
  BY DEF Numbering, Backing
<1>4. Delivery
  BY DEF Delivery, Running
<1> QED
  BY <1>1, <1>2, <1>3, <1>4 DEF IndInv

\* The inductive invariant of the broker, its handle_pam tasks and the helpers.
THEOREM Invariance == Spec => []IndInv
<1>1. Init => IndInv
  BY IndInvInitially
<1>2. IndInv /\ [Next]_vars => IndInv'
  BY IndInvPreserved
<1> QED
  BY <1>1, <1>2, PTL DEF Spec

----------------------------------------------------------------------------
\* Every variable keeps its type.
THEOREM TypeCorrect == Spec => []TypeOK
<1>1. IndInv => TypeOK
  BY DEF IndInv
<1> QED
  BY <1>1, Invariance, PTL

\* No request sleeps in consume() next to a grant it could take, whatever the
\* order of issue(), the clear() calls and the timeouts.
THEOREM WakeupsAreNotLost == Spec => []NoLostWakeup
<1>1. IndInv => NoLostWakeup
  BY DEF IndInv
<1> QED
  BY <1>1, Invariance, PTL

\* Exit code 0 of the helper means a grant of its own, the unlock user and an
\* audit record, through audit failures, crashes and killed logins.
THEOREM LoginsAreAccounted == Spec => []ExitZeroIsAccounted
<1>1. IndInv => ExitZeroIsAccounted
  BY DEF IndInv, Backing, ExitZeroIsAccounted
<1> QED
  BY <1>1, Invariance, PTL

\* With a margin of more than two scheduling delays and no stall, a helper that gave up has
\* no request left that could use up a grant.
THEOREM HelpersOutliveRequests == Spec => []HelperOutlivesRequest
<1>1. IndInv => HelperOutlivesRequest
  BY DEF IndInv, Punctual, HelperOutlivesRequest, Running
<1> QED
  BY <1>1, Invariance, PTL

\* A consumed grant is delivered unless the audit log fails, the listener dies
\* or its loop stalls.
THEOREM GrantsAreDelivered == Spec => []TakenIsDelivered
<1>1. IndInv => TakenIsDelivered
  BY DEF IndInv, Delivery, TakenIsDelivered
<1> QED
  BY <1>1, Invariance, PTL

\* No two logins consume the same grant.
THEOREM GrantsAreSingleUse == Spec => []GrantSingleUse
<1>1. IndInv => GrantSingleUse
  BY DEF IndInv, Numbering, GrantSingleUse, Grant!SingleUse
<1> QED
  BY <1>1, Invariance, PTL

----------------------------------------------------------------------------
\* Which steps consume: those of Take, on behalf of a request that has nothing.
LEMMA OnlyTakeConsumes ==
    ASSUME IndInv, Next, NEW h \in Helpers, Serve(h)
    PROVE  \/ Take(h) /\ taken[h] = 0
           \/ UNCHANGED <<now, expires, issues, issuedAt, taken>>
<1>1. task[h] \in Running
  BY DEF Serve, ReadLine, ReadEof, ReadTimeout, Resume, WaitTimeout, Running
<1>2. taken[h] = 0
  BY <1>1 DEF IndInv, Stages, Running
<1>3. Deny(h) => UNCHANGED <<now, expires, issues, issuedAt, taken>>
  BY DEF Deny, broker
<1>4. ASSUME NEW u, Sleep(h, u) PROVE UNCHANGED <<now, expires, issues, issuedAt, taken>>
  BY <1>4 DEF Sleep
<1> QED
  BY <1>2, <1>3, <1>4
     DEF Serve, ReadLine, ReadEof, ReadTimeout, Resume, WaitTimeout, Consume

\* Every other step leaves the broker alone, issues, expires or forgets the grant.
LEMMA OtherSteps ==
    ASSUME IndInv, [Next]_vars, \A h \in Helpers : ~Serve(h)
    PROVE  \/ Issue
           \/ Crash
           \/ Tick
           \/ UNCHANGED <<now, expires, issues, issuedAt, taken>>
<1> USE DEF broker, tasks
<1>1. CASE \E h \in Helpers, k \in Kinds : Connect(h, k)
  BY <1>1 DEF Connect
<1>2. CASE \E h \in Helpers : Unreachable(h) \/ Send(h) \/ RefusePeer(h) \/ Exit(h)
                               \/ GiveUp(h) \/ Kill(h)
  BY <1>2 DEF Unreachable, Send, RefusePeer, Exit, GiveUp, Kill
<1>3. CASE ToggleDisk \/ Stop \/ UNCHANGED vars
  BY <1>3 DEF ToggleDisk, Stop, vars
<1> QED
  BY <1>1, <1>2, <1>3 DEF Next, Steps, Return

\* Whoever has more than before has taken the latest grant, while it was live.
LEMMA ConsumingStep ==
    ASSUME IndInv, [Next]_vars, NEW h \in Helpers, taken'[h] # taken[h]
    PROVE  Take(h) /\ issues # 0 /\ now < issuedAt + GrantTtl
<1>1. CASE \E g \in Helpers : Serve(g) /\ Next
  <2> PICK g \in Helpers : Serve(g) /\ Next
    BY <1>1
  <2>1. Take(g)
    BY OnlyTakeConsumes
  <2>2. taken' = [taken EXCEPT ![g] = issues] /\ taken \in [Helpers -> Nat]
    BY <2>1 DEF Take, IndInv, TypeOK
  <2>3. g = h
    BY <2>2
  <2>4. expires > now /\ expires # 0 /\ issues # 0 /\ expires = issuedAt + GrantTtl
    BY <2>1, BrokerAssumption DEF IndInv, TypeOK, Take, Live, Numbering
  <2> QED
    BY <2>1, <2>3, <2>4
<1>2. CASE \A g \in Helpers : ~Serve(g)
  BY <1>2, OtherSteps DEF Issue, Crash, Abort, Tick, tasks
<1> QED
  BY <1>1, <1>2 DEF Next, Steps, vars, tasks

\* A consumed grant is less than GrantTtl old.
THEOREM GrantsAreFresh == Spec => GrantIsFresh
<1>1. ASSUME IndInv, [Next]_vars
      PROVE  [\A h \in Helpers : taken'[h] # taken[h] => now < issuedAt + GrantTtl]_vars
  BY <1>1, ConsumingStep
<1> QED
  BY <1>1, Invariance, PTL DEF Spec, GrantIsFresh

\* The end of the process is a lapse of the abstract grant.
LEMMA AbortLapses ==
    ASSUME IndInv, NEW reply \in {"eof", "0"}, Abort(reply)
    PROVE  [Grant!Next]_Grant!vars
BY BrokerAssumption
   DEF IndInv, TypeOK, Abort, Forgotten, Live, Grant!Lapse, Grant!Next, Grant!vars

\* Every step of the broker is a step of the abstract grant or changes nothing
\* of it.
LEMMA StepRefines ==
    ASSUME IndInv, [Next]_vars
    PROVE  [Grant!Next]_Grant!vars
<1> USE BrokerAssumption DEF Live, Grant!vars
<1> TypeOK /\ TypeOK'
  BY TypePreserved DEF IndInv
<1>1. CASE \E h \in Helpers : Serve(h) /\ Next
  <2> PICK h \in Helpers : Serve(h) /\ Next
    BY <1>1
  <2>1. ASSUME Take(h), taken[h] = 0 PROVE Grant!Claim(h)
    BY <2>1 DEF Take, Remainder, Grant!Claim, TypeOK
  <2>2. CASE UNCHANGED <<now, expires, issues, issuedAt, taken>>
    BY <2>2
  <2> QED
    BY <2>1, <2>2, OnlyTakeConsumes DEF Grant!Next
<1>2. ASSUME Issue PROVE Grant!Issue
  BY <1>2 DEF Issue, Grant!Issue, TypeOK
<1>3. ASSUME Crash PROVE [Grant!Next]_Grant!vars
  BY <1>3, AbortLapses DEF Crash
<1>4. ASSUME Tick PROVE Grant!Lapse \/ UNCHANGED Grant!vars
  BY <1>4 DEF Tick, broker, tasks, Grant!Lapse, TypeOK
<1>5. CASE UNCHANGED <<now, expires, issues, issuedAt, taken>>
  BY <1>5
<1>6. CASE \A h \in Helpers : ~Serve(h)
  BY <1>2, <1>3, <1>4, <1>5, <1>6, OtherSteps DEF Grant!Next
<1> QED
  BY <1>1, <1>6 DEF Next, Steps, vars, broker, tasks

\* A new broker is an abstract grant that was never issued.
LEMMA InitRefines == Init => Grant!Init
BY BrokerAssumption DEF Init, Live, Grant!Init

\* The broker implements the abstract one-shot grant.
THEOREM Refinement == Spec => OneShot
BY InitRefines, StepRefines, Invariance, PTL DEF Spec, OneShot, Grant!Spec
=============================================================================
