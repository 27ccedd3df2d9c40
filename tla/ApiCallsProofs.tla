--------------------------- MODULE ApiCallsProofs ---------------------------
(***************************************************************************)
(* A method that follows the rules of ApiDiscipline leaves nothing behind  *)
(* but its known leaks, sends nothing after a failure, answers no failure  *)
(* as a success and leaves in the object what it returns, whatever the     *)
(* table holds: the table of ApiMethods is one instance, which TLC checks  *)
(* against the rules.                                                      *)
(***************************************************************************)
EXTENDS ApiDiscipline, TLAPS

(* Initially nothing runs and nothing is held. *)
LEMMA ReleaseInit == Init => ReleaseInv
BY DEF Init, ReleaseInv, HeldWasMade, AllReleased, Idle

(* What some way out of a method leaves behind is a known leak.            *)
LEMMA LeftIsKnown ==
    ASSUME NEW m \in Method, NEW x, LeavesBehind(m, x)
    PROVE  <<m, x>> \in Leaks
<1>1. x \in Things(m)
    BY DEF LeavesBehind, Things
<1> QED
    BY <1>1, TidyAssumption DEF Tidy

(* One step per action: the ways out are the ones that matter, since a     *)
(* step that returns at once frees nothing and CLEANUP frees its own list. *)
LEMMA ReleaseStep == ReleaseInv /\ [Next]_vars => ReleaseInv'
<1> SUFFICES ASSUME ReleaseInv, [Next]_vars PROVE ReleaseInv'
    OBVIOUS
<1> USE TableAssumption DEF ReleaseInv, HeldWasMade, AllReleased, Idle, Steps
<1>1. CASE Close
    BY <1>1 DEF Close
<1>2. CASE Reconnect
    BY <1>2 DEF Reconnect
<1>3. ASSUME NEW m \in Method, Call(m) PROVE ReleaseInv'
    BY <1>3 DEF Call
<1>4. CASE StepReset
    BY <1>4 DEF StepReset, InSteps
<1>5. CASE StepPasses
    <2>1. /\ running' = running /\ last' = last /\ running # "none"
          /\ at' = at + 1 /\ at <= Len(Steps)
          /\ held' = held \cup Steps[at].gives
        BY <1>5 DEF StepPasses, InSteps, Here
    <2>2. running' # "none" => at' \in Nat \ {0} /\ Len(Steps) \in Nat
        BY <2>1
    <2>3. ASSUME NEW x \in held'
          PROVE  \E j \in 1..Len(Steps) : j < at' /\ x \in Steps[j].gives \cup Steps[j].loses
        <3>1. CASE x \in held
            BY <2>1, <2>2, <3>1
        <3>2. CASE x \in Steps[at].gives
            BY <2>1, <2>2, <3>2
        <3> QED
            BY <2>1, <2>3, <3>1, <3>2
    <2> QED
        BY <2>1, <2>2, <2>3
<1>6. CASE StepFails
    <2>1. /\ last' = last /\ running # "none" /\ at \in 1..Len(Steps) /\ Len(Steps) \in Nat
        BY <1>6 DEF StepFails, InSteps
    <2>2. PICK lost \in SUBSET Steps[at].loses : held' = held \cup lost
        BY <1>6 DEF StepFails, Here
    <2>3. \/ running' = running /\ at' \in Nat \ {0} /\ at' > at
          \/ running' = "none" /\ ReturnsAtOnce(Steps[at])
        BY <1>6, <2>1 DEF StepFails, InSteps, Here, ReturnsAtOnce
    <2>4. CASE running' = running /\ at' \in Nat \ {0} /\ at' > at
        <3>1. ASSUME NEW x \in held'
              PROVE  \E j \in 1..Len(Steps) : j < at' /\ x \in Steps[j].gives \cup Steps[j].loses
            <4>1. CASE x \in held
                BY <2>1, <2>4, <4>1
            <4>2. CASE x \in Steps[at].loses
                BY <2>1, <2>4, <4>2
            <4> QED
                BY <2>2, <3>1, <4>1, <4>2
        <3> QED
            BY <2>1, <2>4, <3>1
    <2>5. CASE running' = "none" /\ ReturnsAtOnce(Steps[at])
        <3>1. ASSUME NEW x \in held' PROVE <<last, x>> \in Leaks
            <4>1. PICK j \in 1..Len(Steps) :
                    /\ j <= at /\ x \in Steps[j].gives \cup Steps[j].loses
                    /\ j = at => x \in Steps[at].loses
                <5>1. CASE x \in held
                    BY <2>1, <5>1
                <5>2. CASE x \in Steps[at].loses
                    BY <2>1, <5>2
                <5> QED
                    BY <2>2, <3>1, <5>1, <5>2
            <4>2. at \in j..Len(Steps)
                BY <2>1, <4>1
            <4>3. LeavesBehind(running, x)
                BY <2>5, <4>1, <4>2 DEF LeavesBehind
            <4> QED
                BY <2>1, <4>1, <4>3, LeftIsKnown
        <3> QED
            BY <2>1, <2>5, <3>1
    <2> QED
        BY <2>3, <2>4, <2>5
<1>7. CASE Cleanup
    <2>1. /\ running # "none" /\ running' = "none" /\ last' = last
          /\ held' = held \ Table[running].frees
        BY <1>7 DEF Cleanup
    <2>2. ASSUME NEW x \in held, x \notin Table[running].frees PROVE <<last, x>> \in Leaks
        <3>1. PICK j \in 1..Len(Steps) : x \in Steps[j].gives \cup Steps[j].loses
            BY <2>1, <2>2
        <3>2. LeavesBehind(running, x)
            BY <2>2, <3>1 DEF LeavesBehind
        <3> QED
            BY <2>1, <3>1, <3>2, LeftIsKnown
    <2> QED
        BY <2>1, <2>2
<1>8. CASE UNCHANGED vars
    BY <1>8 DEF vars
<1> QED
    BY <1>1, <1>2, <1>3, <1>4, <1>5, <1>6, <1>7, <1>8 DEF Next

(* What a running method holds is what the steps behind it made, or lost   *)
(* when they failed.                                                       *)
THEOREM HeldIsKnown == Spec => []ReleaseInv
BY ReleaseInit, ReleaseStep, PTL DEF Spec

(* Whichever way it leaves, a method that has returned has destroyed       *)
(* everything it allocated but the things that Leaks names for it.         *)
THEOREM NothingLeaks == Spec => []AllReleased
<1>1. ReleaseInv => AllReleased
    BY DEF ReleaseInv
<1> QED
    BY <1>1, HeldIsKnown, PTL

-----------------------------------------------------------------------------
(* What a call reports. *)

(* A step that fails leaves a code in err, and one other than OK where the *)
(* rules ask for it, and goes one of three ways.                           *)
LEMMA StepFailsWays ==
    ASSUME RunInv, StepFails
    PROVE  /\ running \in Method /\ running # "none" /\ last' = last
           /\ at \in 1..Len(Steps) /\ usable' = usable /\ failed' = TRUE
           /\ MayFail(Steps[at])
           /\ err' \in Code \cup {"unset"}
           /\ SetsErr(Steps[at]) => err' # "OK"
           /\ Steps[at].kind = "test" =>
                \E c \in Steps[at].errs : err' = IF c = "kept" THEN err ELSE c
           /\ errorno' = CASE Steps[at].says = "nothing" -> errorno
                          [] Steps[at].says = "err" -> err'
                          [] OTHER -> Steps[at].says
           /\ \/ /\ Steps[at].to = "go_on" /\ at' = at + 1
                 /\ running' = running /\ status' = status
              \/ /\ Steps[at].to = "cleanup" /\ at' = Len(Steps) + 1
                 /\ running' = running /\ status' = status
              \/ /\ ReturnsAtOnce(Steps[at]) /\ running' = "none"
                 /\ status' = IF Steps[at].to = "err" THEN err' ELSE Steps[at].to
<1>1. /\ running # "none" /\ running \in Method /\ last = running
      /\ at \in 1..Len(Steps) /\ Len(Steps) \in Nat
      /\ err \in Code \cup {"unset"}
      /\ usable \in {"invalid", "closed", "open"}
    BY TableAssumption DEF RunInv, StepFails, InSteps, Steps
<1>2. /\ Steps[at].kind \in {"reset", "check", "own_check", "test", "err_test", "call"}
      /\ Steps[at].errs \subseteq Code \cup {"kept"}
    BY <1>1, TableAssumption DEF Steps
<1>3. err' \in Leaves
    BY DEF StepFails
<1>4. /\ MayFail(Steps[at])
      /\ err' \in Code \cup {"unset"}
      /\ SetsErr(Steps[at]) => err' # "OK"
    <2>1. CASE Steps[at].kind \in {"check", "own_check"}
        BY <1>1, <1>3, <2>1 DEF Leaves, Here, check_object_and_connection, MayFail, SetsErr, Code
    <2>2. CASE Steps[at].kind = "call"
        BY <1>1, <1>3, <2>2 DEF Leaves, Here, MayFail, SetsErr, Code
    <2>3. CASE Steps[at].kind = "err_test"
        BY <1>1, <1>3, <2>3 DEF Leaves, Here, MayFail, SetsErr, Code
    <2>4. CASE Steps[at].kind = "reset"
        BY <1>1, <1>3, <2>4 DEF Leaves, Here
    <2>5. CASE Steps[at].kind = "test"
        BY <1>1, <1>2, <1>3, <2>5 DEF Leaves, Here, MayFail, SetsErr, Code
    <2> QED
        BY <1>2, <2>1, <2>2, <2>3, <2>4, <2>5
<1>5. Steps[at].kind = "test" =>
        \E c \in Steps[at].errs : err' = IF c = "kept" THEN err ELSE c
    BY <1>3 DEF Leaves, Here
<1>6. errorno' = CASE Steps[at].says = "nothing" -> errorno
                   [] Steps[at].says = "err" -> err'
                   [] OTHER -> Steps[at].says
    BY DEF StepFails, Says, Here, update_client_error
<1>7. \/ /\ Steps[at].to = "go_on" /\ at' = at + 1
         /\ running' = running /\ status' = status
      \/ /\ Steps[at].to = "cleanup" /\ at' = Len(Steps) + 1
         /\ running' = running /\ status' = status
      \/ /\ ReturnsAtOnce(Steps[at]) /\ running' = "none"
         /\ status' = IF Steps[at].to = "err" THEN err' ELSE Steps[at].to
    BY DEF StepFails, Here, ReturnsAtOnce
<1>8. last' = last /\ usable' = usable /\ failed' = TRUE
    BY DEF StepFails
<1> QED
    BY <1>1, <1>4, <1>5, <1>6, <1>7, <1>8

(* A step that passes moves to the next one. *)
LEMMA StepPassesWays ==
    ASSUME RunInv, StepPasses
    PROVE  /\ running \in Method /\ running # "none" /\ running' = running /\ last' = last
           /\ at \in 1..Len(Steps) /\ at' = at + 1 /\ Len(Steps) \in Nat
           /\ Steps' = Steps
           /\ usable' = usable /\ errorno' = errorno /\ status' = status /\ failed' = failed
           /\ Steps[at].kind # "reset"
           /\ Steps[at].kind = "err_test" => err = "OK"
           /\ err' = IF Steps[at].kind = "call" THEN "OK" ELSE err
BY TableAssumption DEF RunInv, StepPasses, InSteps, Steps, Here

(* So does the step that forgets the last error. *)
LEMMA StepResetWays ==
    ASSUME RunInv, StepReset
    PROVE  /\ running \in Method /\ running # "none" /\ running' = running /\ last' = last
           /\ at \in 1..Len(Steps) /\ at' = at + 1 /\ Len(Steps) \in Nat
           /\ Steps' = Steps
           /\ usable' = usable /\ errorno' = "OK" /\ status' = status /\ failed' = failed
           /\ Steps[at].kind = "reset" /\ err' = err
BY TableAssumption DEF RunInv, StepReset, InSteps, Steps, Here, reset_client_error

(* A run stays inside its method. *)
LEMMA RunStep == RunInv /\ [Next]_vars => RunInv'
<1> SUFFICES ASSUME RunInv, [Next]_vars PROVE RunInv'
    OBVIOUS
<1>1. CASE Close
    BY <1>1 DEF RunInv, Close
<1>2. CASE Reconnect
    BY <1>2 DEF RunInv, Reconnect
<1>3. ASSUME NEW m \in Method, Call(m) PROVE RunInv'
    BY <1>3, TableAssumption DEF RunInv, Call, Steps, Code
<1>4. CASE StepReset
    BY <1>4, StepResetWays DEF RunInv
<1>5. CASE StepPasses
    BY <1>5, StepPassesWays DEF RunInv, Code
<1>6. CASE StepFails
    <2>1. /\ usable' = usable /\ last' = last /\ err' \in Code \cup {"unset"}
          /\ running \in Method /\ last = running
        BY <1>6, StepFailsWays DEF RunInv
    <2>2. \/ running' = running /\ at' \in 1..(Len(Steps) + 1)
          \/ running' = "none"
        BY <1>6, <2>1, StepFailsWays, TableAssumption DEF Steps
    <2> QED
        BY <2>1, <2>2 DEF RunInv, Steps
<1>7. CASE Cleanup
    BY <1>7 DEF RunInv, Cleanup
<1>8. CASE UNCHANGED vars
    BY <1>8 DEF RunInv, vars, Steps
<1> QED
    BY <1>1, <1>2, <1>3, <1>4, <1>5, <1>6, <1>7, <1>8 DEF Next

(* No request is made while a failure is pending: between the two the rule *)
(* puts a test of err, which stops the method.                             *)
LEMMA PendingIsNotSent ==
    ASSUME RunInv, InSteps, StopsBeforeCall(running), Pending
    PROVE  Here.kind # "call"
<1>1. at \in 1..Len(Steps) /\ Len(Steps) \in Nat
    BY TableAssumption DEF RunInv, InSteps, Steps
<1>2. PICK i \in 1..(at - 1) :
        Steps[i].to = "go_on" /\ \A e \in (i + 1)..(at - 1) : Steps[e].kind # "err_test"
    BY DEF Pending
<1>3. i \in 1..Len(Steps) /\ at \in (i + 1)..Len(Steps)
    BY <1>1, <1>2
<1> QED
    BY <1>2, <1>3 DEF StopsBeforeCall, Here, Steps

(* Pending failures stay pending. *)
LEMMA StopStep == RunInv /\ StopInv /\ [Next]_vars => StopInv'
<1> SUFFICES ASSUME RunInv, StopInv, [Next]_vars,
                    InSteps', StopsBeforeCall(running)', failed'
             PROVE  Pending'
    BY DEF StopInv
<1>1. CASE Close
    BY <1>1 DEF Close, InSteps
<1>2. CASE Reconnect
    BY <1>2 DEF Reconnect, InSteps
<1>3. ASSUME NEW m \in Method, Call(m) PROVE Pending'
    BY <1>3 DEF Call
<1>4. CASE StepReset
    <2>1. /\ running' = running /\ at' = at + 1 /\ err' = err /\ failed' = failed
          /\ InSteps /\ Steps' = Steps /\ at \in 1..Len(Steps) /\ Len(Steps) \in Nat
          /\ Steps[at].kind # "err_test"
        BY <1>4, StepResetWays DEF StepReset
    <2>2. Pending
        BY <2>1 DEF StopInv, StopsBeforeCall
    <2> QED
        BY <2>1, <2>2 DEF Pending
<1>5. CASE StepPasses
    <2>1. /\ running' = running /\ at' = at + 1 /\ failed' = failed
          /\ InSteps /\ Steps' = Steps /\ at \in 1..Len(Steps) /\ Len(Steps) \in Nat
        BY <1>5, StepPassesWays DEF StepPasses
    <2>2. Pending
        BY <2>1 DEF StopInv, StopsBeforeCall
    <2>3. Steps[at].kind # "call"
        BY <2>1, <2>2, PendingIsNotSent DEF Here, StopsBeforeCall
    <2>4. err' = err /\ Steps[at].kind # "err_test"
        BY <1>5, <2>2, <2>3, StepPassesWays DEF Pending
    <2> QED
        BY <2>1, <2>2, <2>4 DEF Pending
<1>6. CASE StepFails
    <2>1. running' = running /\ Steps' = Steps /\ at \in 1..Len(Steps) /\ Len(Steps) \in Nat
        BY <1>6, StepFailsWays, TableAssumption DEF InSteps, Steps
    <2>2. Steps[at].to = "go_on" /\ at' = at + 1
        BY <1>6, <2>1, StepFailsWays DEF InSteps
    <2>3. err' # "OK"
        BY <1>6, <2>1, <2>2, StepFailsWays DEF StopsBeforeCall, Steps
    <2> QED
        BY <2>1, <2>2, <2>3 DEF Pending
<1>7. CASE Cleanup
    BY <1>7 DEF Cleanup, InSteps
<1>8. CASE UNCHANGED vars
    BY <1>8 DEF StopInv, Pending, InSteps, Steps, StopsBeforeCall, vars
<1> QED
    BY <1>1, <1>2, <1>3, <1>4, <1>5, <1>6, <1>7, <1>8 DEF Next

(* A method that keeps to the rules does not lose a failure. *)
LEMMA KeepStep == RunInv /\ StopInv /\ KeepInv /\ [Next]_vars => KeepInv'
<1> SUFFICES ASSUME RunInv, StopInv, KeepInv, [Next]_vars,
                    running' # "none", KeepsFailure(running)', failed'
             PROVE  err' # "OK"
    BY DEF KeepInv
<1>1. CASE Close
    BY <1>1 DEF Close
<1>2. CASE Reconnect
    BY <1>2 DEF Reconnect
<1>3. ASSUME NEW m \in Method, Call(m) PROVE err' # "OK"
    BY <1>3 DEF Call
<1>4. CASE StepReset
    BY <1>4 DEF StepReset, InSteps, KeepInv, KeepsFailure, StopsBeforeCall
<1>5. CASE StepPasses
    <2>1. running' = running /\ failed' = failed /\ InSteps
        BY <1>5, StepPassesWays DEF StepPasses
    <2>2. KeepsFailure(running) /\ StopsBeforeCall(running)
        BY <2>1 DEF KeepsFailure, StopsBeforeCall
    <2>3. Steps[at].kind # "call"
        BY <2>1, <2>2, PendingIsNotSent DEF Here, StopInv
    <2> QED
        BY <1>5, <2>1, <2>2, <2>3, StepPassesWays DEF KeepInv
<1>6. CASE StepFails
    <2>1. running' = running /\ at \in 1..Len(Steps) /\ ~ReturnsAtOnce(Steps[at])
        BY <1>6, StepFailsWays DEF ReturnsAtOnce
    <2>2. SetsErr(Steps[at])
        BY <2>1 DEF KeepsFailure, Steps
    <2> QED
        BY <1>6, <2>2, StepFailsWays
<1>7. CASE Cleanup
    BY <1>7 DEF Cleanup
<1>8. CASE UNCHANGED vars
    BY <1>8 DEF KeepInv, KeepsFailure, StopsBeforeCall, vars
<1> QED
    BY <1>1, <1>2, <1>3, <1>4, <1>5, <1>6, <1>7, <1>8 DEF Next

(* CLEANUP answers by the code in err, or with a value. *)
LEMMA CleanupWays ==
    ASSUME RunInv, Cleanup
    PROVE  /\ running \in Method /\ running # "none" /\ ~InSteps /\ last = running
           /\ running' = "none" /\ last' = last /\ failed' = failed
           /\ err \in Code \cup {"unset"}
           /\ errorno' = IF Table[running].reports /\ err # "OK" THEN err ELSE errorno
           /\ Table[running].answers = "code" => status' = err
           /\ Table[running].answers = "value" =>
                status' = IF err = "OK" /\ ~failed THEN "value" ELSE "NULL"
           /\ Table[running].answers = "always_value" => status' = "value"
<1>1. /\ running \in Method /\ running # "none" /\ last = running
      /\ err \in Code \cup {"unset"}
    BY DEF RunInv, Cleanup
<1>2. ~InSteps
    BY <1>1, TableAssumption DEF RunInv, Cleanup, InSteps, Steps
<1>3. running' = "none" /\ last' = last /\ failed' = failed
    BY DEF Cleanup
<1>4. errorno' = IF Table[running].reports /\ err # "OK" THEN err ELSE errorno
    BY DEF Cleanup, update_client_error
<1>5. Table[running].answers = "code" => status' = err
    BY DEF Cleanup
<1>6. Table[running].answers = "value" =>
        status' = IF err = "OK" /\ ~failed THEN "value" ELSE "NULL"
    BY DEF Cleanup
<1>7. Table[running].answers = "always_value" => status' = "value"
    BY DEF Cleanup
<1> QED
    BY <1>1, <1>2, <1>3, <1>4, <1>5, <1>6, <1>7

(* A method that always answers with a value has had no failure to report. *)
LEMMA AlwaysStep == RunInv /\ AlwaysInv /\ [Next]_vars => AlwaysInv'
<1> SUFFICES ASSUME RunInv, AlwaysInv, [Next]_vars,
                    running' # "none", Table[running'].answers = "always_value"
             PROVE  /\ running' \notin Unfinished => ~failed'
                    /\ running' \notin Unreported => err' = "OK"
    BY DEF AlwaysInv
<1>1. CASE Close
    BY <1>1 DEF Close, AlwaysInv
<1>2. CASE Reconnect
    BY <1>2 DEF Reconnect, AlwaysInv
<1>3. ASSUME NEW m \in Method, Call(m)
      PROVE  /\ running' \notin Unfinished => ~failed'
             /\ running' \notin Unreported => err' = "OK"
    BY <1>3, RecordsAssumption DEF Call, AnswersAsRecorded
<1>4. CASE StepReset
    BY <1>4, StepResetWays DEF AlwaysInv
<1>5. CASE StepPasses
    BY <1>5, StepPassesWays DEF AlwaysInv
<1>6. CASE StepFails
    <2>1. /\ running' = running /\ running \in Method /\ running # "none"
          /\ at \in 1..Len(Steps) /\ ~ReturnsAtOnce(Steps[at]) /\ MayFail(Steps[at])
        BY <1>6, StepFailsWays DEF ReturnsAtOnce
    <2>2. running \in Unfinished
        BY <2>1, TellsAssumption DEF TellsFailure, Steps
    <2>3. ASSUME running \notin Unreported PROVE err' = "OK"
        <3>1. Steps[at].kind = "test" /\ Steps[at].errs = {"kept"}
            BY <2>1, <2>3, RecordsAssumption DEF AnswersAsRecorded, Steps
        <3>2. err' = err
            BY <1>6, <3>1, StepFailsWays
        <3> QED
            BY <2>1, <2>3, <3>2 DEF AlwaysInv
    <2> QED
        BY <2>1, <2>2, <2>3
<1>7. CASE Cleanup
    BY <1>7 DEF Cleanup
<1>8. CASE UNCHANGED vars
    BY <1>8 DEF AlwaysInv, vars
<1> QED
    BY <1>1, <1>2, <1>3, <1>4, <1>5, <1>6, <1>7, <1>8 DEF Next

(* What the object holds as its last error while a method runs. *)
LEMMA ErrornoStep == RunInv /\ ErrornoInv /\ [Next]_vars => ErrornoInv'
<1> SUFFICES ASSUME RunInv, ErrornoInv, [Next]_vars,
                    running' # "none", running' \notin Unreported
             PROVE  ErrornoInv'
    BY DEF ErrornoInv
<1>1. CASE Close
    BY <1>1 DEF Close
<1>2. CASE Reconnect
    BY <1>2 DEF Reconnect
<1>3. ASSUME NEW m \in Method, Call(m) PROVE ErrornoInv'
    <2>1. running' = m /\ at' = 1
        BY <1>3 DEF Call
    <2>2. RecordsFailure(m) /\ Len(Table[m].steps) \in Nat
        BY <2>1, RecordsAssumption, TableAssumption
    <2>3. InSteps'
        BY <2>1, <2>2 DEF RecordsFailure, InSteps, Steps
    <2> QED
        BY <2>1, <2>3 DEF ErrornoInv
<1>4. CASE StepReset
    <2>1. running' = running /\ errorno' = "OK" /\ Steps' = Steps
        BY <1>4, StepResetWays
    <2>2. ASSUME ~InSteps' PROVE \/ errorno' = err'
                                 \/ Table[running'].reports /\ (err' = "OK" => errorno' = "OK")
        <3>1. at = Len(Steps)
            BY <1>4, <2>1, <2>2, StepResetWays DEF InSteps
        <3>2. Steps[Len(Steps)].kind # "call" /\ running \in Method
            BY <1>4, <3>1, StepResetWays
        <3>3. Table[running].reports
            BY <2>1, <3>2, RecordsAssumption DEF AnswersAsRecorded, Steps
        <3> QED
            BY <2>1, <3>3
    <2> QED
        BY <2>1, <2>2 DEF ErrornoInv
<1>5. CASE StepPasses
    <2>1. /\ running' = running /\ errorno' = errorno /\ Steps' = Steps /\ at' = at + 1
          /\ at \in 1..Len(Steps) /\ Len(Steps) \in Nat /\ InSteps
          /\ Steps[at].kind # "reset" /\ running \in Method
        BY <1>5, StepPassesWays DEF StepPasses
    <2>2. ASSUME NEW r \in 1..(at' - 1), Steps[r].kind = "reset" PROVE errorno' = "OK"
        <3>1. r \in 1..(at - 1)
            BY <2>1, <2>2
        <3> QED
            BY <2>1, <2>2, <3>1 DEF ErrornoInv
    <2>3. ASSUME ~InSteps' PROVE \/ errorno' = err'
                                 \/ Table[running'].reports /\ (err' = "OK" => errorno' = "OK")
        <3>1. at = Len(Steps)
            BY <2>1, <2>3 DEF InSteps
        <3>2. errorno' = "OK"
            <4>1. PICK r \in 1..Len(Steps) : Steps[r].kind = "reset"
                BY <2>1, RecordsAssumption DEF RecordsFailure, Steps
            <4> QED
                BY <2>1, <2>2, <3>1, <4>1
        <3>3. CASE Table[running].reports
            BY <2>1, <3>2, <3>3
        <3>4. CASE ~Table[running].reports
            <4>1. Steps[at].kind = "call"
                BY <2>1, <3>1, <3>4, RecordsAssumption DEF AnswersAsRecorded, Steps
            <4> QED
                BY <1>5, <3>2, <4>1, StepPassesWays
        <3> QED
            BY <3>3, <3>4
    <2> QED
        BY <2>1, <2>2, <2>3 DEF ErrornoInv
<1>6. CASE StepFails
    <2>1. /\ running' = running /\ Steps' = Steps /\ InSteps
          /\ running \in Method /\ running # "none"
          /\ at \in 1..Len(Steps) /\ Len(Steps) \in Nat
          /\ MayFail(Steps[at])
        BY <1>6, StepFailsWays, TableAssumption DEF Steps, StepFails
    <2>2. RecordsFailure(running)
        BY <2>1, RecordsAssumption
    <2>3. CASE Steps[at].to = "go_on" /\ at' = at + 1
        <3>1. Steps[at].says = "nothing" /\ Table[running].reports
            BY <2>1, <2>2, <2>3 DEF RecordsFailure, Steps
        <3>2. errorno' = errorno
            BY <1>6, <3>1, StepFailsWays
        <3>3. ASSUME NEW r \in 1..(at' - 1), Steps[r].kind = "reset" PROVE errorno' = "OK"
            <4>1. Steps[at].kind # "reset"
                BY <2>1 DEF MayFail
            <4>2. r \in 1..(at - 1)
                BY <2>1, <2>3, <3>3, <4>1
            <4> QED
                BY <2>1, <3>2, <3>3, <4>2 DEF ErrornoInv
        <3>4. ASSUME ~InSteps' PROVE errorno' = "OK"
            <4>1. at = Len(Steps)
                BY <2>1, <2>3, <3>4 DEF InSteps
            <4>2. PICK r \in 1..Len(Steps) : Steps[r].kind = "reset"
                BY <2>2 DEF RecordsFailure, Steps
            <4> QED
                BY <2>1, <2>3, <3>3, <4>1, <4>2
        <3> QED
            BY <2>1, <3>1, <3>3, <3>4 DEF ErrornoInv
    <2>4. CASE Steps[at].to = "cleanup" /\ at' = Len(Steps) + 1
        <3>1. ~InSteps'
            BY <2>1, <2>4 DEF InSteps
        <3>2. \/ Steps[at].says = "err"
              \/ Steps[at].kind = "test" /\ Steps[at].errs = {Steps[at].says} /\ SetsErr(Steps[at])
              \/ /\ Steps[at].says = "nothing" /\ Table[running].reports
                 /\ SetsErr(Steps[at]) \/ \E r \in 1..(at - 1) : Steps[r].kind = "reset"
            BY <2>1, <2>2, <2>4 DEF RecordsFailure, Steps
        <3>3. CASE Steps[at].says = "err"
            BY <1>6, <3>1, <3>3, StepFailsWays DEF ErrornoInv
        <3>4. CASE Steps[at].kind = "test" /\ Steps[at].errs = {Steps[at].says} /\ SetsErr(Steps[at])
            <4>1. Steps[at].says \in Code \ {"OK"}
                BY <2>1, <3>4, TableAssumption DEF Steps, SetsErr
            <4>2. err' = Steps[at].says /\ errorno' = Steps[at].says
                BY <1>6, <3>4, <4>1, StepFailsWays DEF Code
            <4> QED
                BY <3>1, <4>2 DEF ErrornoInv
        <3>5. CASE /\ Steps[at].says = "nothing" /\ Table[running].reports
                   /\ SetsErr(Steps[at]) \/ \E r \in 1..(at - 1) : Steps[r].kind = "reset"
            <4>1. errorno' = errorno
                BY <1>6, <3>5, StepFailsWays
            <4>2. CASE SetsErr(Steps[at])
                <5>1. err' # "OK"
                    BY <1>6, <4>2, StepFailsWays
                <5> QED
                    BY <2>1, <3>1, <3>5, <5>1 DEF ErrornoInv
            <4>3. CASE \E r \in 1..(at - 1) : Steps[r].kind = "reset"
                <5>1. errorno = "OK"
                    BY <2>1, <4>3 DEF ErrornoInv
                <5> QED
                    BY <2>1, <3>1, <3>5, <4>1, <5>1 DEF ErrornoInv
            <4> QED
                BY <3>5, <4>2, <4>3
        <3> QED
            BY <3>2, <3>3, <3>4, <3>5
    <2> QED
        BY <1>6, <2>1, <2>3, <2>4, StepFailsWays
<1>7. CASE Cleanup
    BY <1>7 DEF Cleanup
<1>8. CASE UNCHANGED vars
    BY <1>8 DEF ErrornoInv, InSteps, Steps, vars
<1> QED
    BY <1>1, <1>2, <1>3, <1>4, <1>5, <1>6, <1>7, <1>8 DEF Next

(* No way out of a method answers a failure as a success. *)
LEMMA OkStep == RunInv /\ KeepInv /\ AlwaysInv /\ OkIsDone /\ [Next]_vars => OkIsDone'
<1> SUFFICES ASSUME RunInv, KeepInv, AlwaysInv, OkIsDone, [Next]_vars,
                    running' = "none", last' \notin Unfinished, status' \in {"OK", "value"}
             PROVE  ~failed'
    BY DEF OkIsDone, Idle
<1>1. CASE Close
    BY <1>1 DEF Close
<1>2. CASE Reconnect
    BY <1>2 DEF Reconnect
<1>3. ASSUME NEW m \in Method, Call(m) PROVE ~failed'
    BY <1>3, TableAssumption DEF Call
<1>4. CASE StepReset
    BY <1>4, StepResetWays
<1>5. CASE StepPasses
    BY <1>5, StepPassesWays
<1>6. CASE StepFails
    <2>1. /\ ReturnsAtOnce(Steps[at]) /\ at \in 1..Len(Steps)
          /\ running \in Method /\ running \notin Unfinished
          /\ status' = IF Steps[at].to = "err" THEN err' ELSE Steps[at].to
        BY <1>6, StepFailsWays DEF RunInv
    <2>2. Steps[at].to \notin {"OK", "value"} /\ (Steps[at].to = "err" => SetsErr(Steps[at]))
        BY <2>1, TellsAssumption DEF TellsFailure, Steps
    <2>3. Steps[at].to = "err" => err' \notin {"OK", "value"}
        BY <1>6, <2>2, StepFailsWays DEF Code
    <2> QED
        BY <2>1, <2>2, <2>3
<1>7. CASE Cleanup
    <2>1. running \in Method /\ running # "none" /\ running \notin Unfinished
        BY <1>7, CleanupWays
    <2>2. TellsFailure(running)
        BY <2>1, TellsAssumption
    <2>3. CASE Table[running].answers = "code"
        <3>1. status' = err /\ err \in Code \cup {"unset"} /\ failed' = failed
            BY <1>7, <2>3, CleanupWays
        <3>2. err = "OK"
            BY <3>1 DEF Code
        <3> QED
            BY <2>1, <2>2, <2>3, <3>1, <3>2 DEF KeepInv, TellsFailure
    <2>4. CASE Table[running].answers = "value"
        BY <1>7, <2>4, CleanupWays
    <2>5. CASE Table[running].answers = "always_value"
        BY <1>7, <2>1, <2>5, CleanupWays DEF AlwaysInv
    <2> QED
        BY <2>1, <2>3, <2>4, <2>5, TableAssumption
<1>8. CASE UNCHANGED vars
    BY <1>8 DEF OkIsDone, Idle, vars
<1> QED
    BY <1>1, <1>2, <1>3, <1>4, <1>5, <1>6, <1>7, <1>8 DEF Next

(* Every way out of a method leaves in the object what the method returns. *)
LEMMA StatusStep ==
    RunInv /\ KeepInv /\ AlwaysInv /\ ErrornoInv /\ ErrornoIsStatus /\ [Next]_vars => ErrornoIsStatus'
<1> SUFFICES ASSUME RunInv, KeepInv, AlwaysInv, ErrornoInv, ErrornoIsStatus, [Next]_vars,
                    running' = "none", last' \notin Unreported
             PROVE  /\ status' = "NULL" => errorno' # "OK"
                    /\ status' = "value" => errorno' = "OK"
                    /\ status' \notin {"NULL", "value"} => errorno' = status'
    BY DEF ErrornoIsStatus, Idle
<1>1. CASE Close
    BY <1>1, RecordsAssumption DEF Close
<1>2. CASE Reconnect
    BY <1>2 DEF Reconnect, update_client_error, reset_client_error
<1>3. ASSUME NEW m \in Method, Call(m) PROVE FALSE
    BY <1>3, TableAssumption DEF Call
<1>4. CASE StepReset
    BY <1>4, StepResetWays
<1>5. CASE StepPasses
    BY <1>5, StepPassesWays
<1>6. CASE StepFails
    <2>1. /\ ReturnsAtOnce(Steps[at]) /\ at \in 1..Len(Steps)
          /\ running \in Method /\ running \notin Unreported
          /\ status' = IF Steps[at].to = "err" THEN err' ELSE Steps[at].to
        BY <1>6, StepFailsWays DEF RunInv
    <2>2. RecordsReturn(Steps[at])
        BY <2>1, RecordsAssumption DEF RecordsFailure, Steps
    <2>3. CASE Steps[at].to = "err" /\ Steps[at].says = "err"
        <3>1. errorno' = err' /\ err' \in Code \cup {"unset"}
            BY <1>6, <2>3, StepFailsWays
        <3> QED
            BY <2>1, <2>3, <3>1 DEF Code
    <2>4. CASE /\ Steps[at].to = Steps[at].says
               /\ Steps[at].to \notin {"nothing", "err", "NULL", "value"}
        <3>1. errorno' = Steps[at].to
            BY <1>6, <2>4, StepFailsWays
        <3> QED
            BY <2>1, <2>4, <3>1
    <2>5. CASE /\ Steps[at].to = "NULL" /\ Steps[at].says \notin {"nothing", "OK"}
               /\ Steps[at].says = "err" => SetsErr(Steps[at])
        <3>1. errorno' # "OK"
            BY <1>6, <2>5, StepFailsWays
        <3> QED
            BY <2>1, <2>5, <3>1
    <2> QED
        BY <2>2, <2>3, <2>4, <2>5 DEF RecordsReturn
<1>7. CASE Cleanup
    <2>1. running \in Method /\ running # "none" /\ running \notin Unreported /\ ~InSteps
        BY <1>7, CleanupWays
    <2>2. AnswersAsRecorded(running)
        BY <2>1, RecordsAssumption
    <2>3. \/ errorno = err
          \/ Table[running].reports /\ (err = "OK" => errorno = "OK")
        BY <2>1 DEF ErrornoInv
    <2>4. errorno' = err
        BY <1>7, <2>3, CleanupWays
    <2>5. CASE Table[running].answers = "code"
        <3>1. status' = err /\ err \in Code \cup {"unset"}
            BY <1>7, <2>5, CleanupWays
        <3> QED
            BY <2>4, <3>1 DEF Code
    <2>6. CASE Table[running].answers = "value"
        <3>1. failed => err # "OK"
            BY <2>1, <2>2, <2>6 DEF AnswersAsRecorded, KeepInv
        <3>2. status' = IF err = "OK" THEN "value" ELSE "NULL"
            BY <1>7, <2>6, <3>1, CleanupWays
        <3> QED
            BY <2>4, <3>2
    <2>7. CASE Table[running].answers = "always_value"
        <3>1. status' = "value" /\ err = "OK"
            BY <1>7, <2>1, <2>7, CleanupWays DEF AlwaysInv
        <3> QED
            BY <2>4, <3>1
    <2> QED
        BY <2>1, <2>5, <2>6, <2>7, TableAssumption
<1>8. CASE UNCHANGED vars
    BY <1>8 DEF ErrornoIsStatus, Idle, vars
<1> QED
    BY <1>1, <1>2, <1>3, <1>4, <1>5, <1>6, <1>7, <1>8 DEF Next

(* Initially nothing runs and nothing has failed. *)
LEMMA ReportInit == Init => ReportInv
BY DEF Init, ReportInv, RunInv, StopInv, KeepInv, AlwaysInv, ErrornoInv, OkIsDone,
       ErrornoIsStatus, InSteps, Idle

(* The parts together. *)
LEMMA ReportStep == ReportInv /\ [Next]_vars => ReportInv'
BY RunStep, StopStep, KeepStep, AlwaysStep, ErrornoStep, OkStep, StatusStep DEF ReportInv

(* The invariant of a call holds in every state. *)
THEOREM CallsReport == Spec => []ReportInv
BY ReportInit, ReportStep, PTL DEF Spec

(* A method that stops for its failures, as the rule says, makes no        *)
(* request after a step of it has failed.                                  *)
THEOREM NothingSentAfterFailure == Spec => []RefusedIsUnsent
<1>1. ReportInv => RefusedIsUnsent
    <2> SUFFICES ASSUME ReportInv, InSteps, last \notin Unchecked, failed
                 PROVE  Here.kind # "call"
        BY DEF RefusedIsUnsent
    <2>1. StopsBeforeCall(running)
        BY StopsAssumption DEF ReportInv, RunInv, InSteps
    <2> QED
        BY <2>1, PendingIsNotSent DEF ReportInv, StopInv
<1> QED
    BY <1>1, CallsReport, PTL

(* A method that answers with success has had no failing step.             *)
THEOREM SuccessIsDone == Spec => []OkIsDone
<1>1. ReportInv => OkIsDone
    BY DEF ReportInv
<1> QED
    BY <1>1, CallsReport, PTL

(* After a call, errorno() agrees with what the call returned.             *)
THEOREM ErrornoAgrees == Spec => []ErrornoIsStatus
<1>1. ReportInv => ErrornoIsStatus
    BY DEF ReportInv
<1> QED
    BY <1>1, CallsReport, PTL

=============================================================================
