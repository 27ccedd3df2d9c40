--------------------------- MODULE ApiDiscipline ----------------------------
(***************************************************************************)
(* The rules that a method of the Aerospike class has to follow for the    *)
(* properties of ApiCalls to hold, as conditions on the table of methods   *)
(* that can be read off the code without running it.                       *)
(***************************************************************************)
EXTENDS ApiCalls

(* A step whose failure returns from where it stands, past CLEANUP. *)
ReturnsAtOnce(s) == s.to \notin {"go_on", "cleanup"}

(* Some way out of the method leaves x behind: CLEANUP does not free what  *)
(* the step made or lost, or a later step (the step itself, for what its   *)
(* failure lost) returns at once.                                          *)
LeavesBehind(m, x) ==
    LET steps == Table[m].steps
    IN \E i \in 1..Len(steps) :
        /\ x \in steps[i].gives \cup steps[i].loses
        /\ \/ x \notin Table[m].frees
           \/ \E j \in i..Len(steps) :
                ReturnsAtOnce(steps[j]) /\ (j = i => x \in steps[i].loses)

(* Nothing is left behind but the known leaks. *)
Things(m) ==
    UNION {Table[m].steps[i].gives \cup Table[m].steps[i].loses : i \in 1..Len(Table[m].steps)}
Tidy(m) == \A x \in Things(m) : LeavesBehind(m, x) => <<m, x>> \in Leaks

(* A step that may fail, and one whose failure leaves a code in err.       *)
MayFail(s) == s.kind # "reset" /\ (s.kind = "test" => s.errs # {})
SetsErr(s) == s.kind = "test" => s.errs \cap {"OK", "kept"} = {}

(* Where a failure does not stop the method, it sets err, and err is       *)
(* looked at before the next request.                                      *)
StopsBeforeCall(m) ==
    LET steps == Table[m].steps
    IN \A i \in 1..Len(steps) :
        steps[i].to = "go_on" =>
            /\ SetsErr(steps[i])
            /\ \A j \in (i + 1)..Len(steps) :
                steps[j].kind = "call" => \E e \in (i + 1)..(j - 1) : steps[e].kind = "err_test"

(* A failure that is not returned at once is still in err at CLEANUP. *)
KeepsFailure(m) ==
    /\ StopsBeforeCall(m)
    /\ \A i \in 1..Len(Table[m].steps) :
        ReturnsAtOnce(Table[m].steps[i]) \/ SetsErr(Table[m].steps[i])

(* No failure is answered as a success. *)
TellsFailure(m) ==
    /\ \A i \in 1..Len(Table[m].steps) :
        LET s == Table[m].steps[i]
        IN /\ s.to \notin {"OK", "value"}
           /\ s.to = "err" => SetsErr(s)
           /\ Table[m].answers = "always_value" => ReturnsAtOnce(s) \/ ~MayFail(s)
    /\ Table[m].answers = "code" => KeepsFailure(m)

(* A step that returns at once records what it returns, or an error where  *)
(* it returns NULL.                                                        *)
RecordsReturn(s) ==
    \/ s.to = "err" /\ s.says = "err"
    \/ s.to = s.says /\ s.to \notin {"nothing", "err", "NULL", "value"}
    \/ s.to = "NULL" /\ s.says \notin {"nothing", "OK"} /\ (s.says = "err" => SetsErr(s))

(* The last error is forgotten on the way; a step that goes to CLEANUP     *)
(* records what it leaves in err, or CLEANUP does, and then the last error *)
(* was forgotten before the step or is overwritten.                        *)
RecordsFailure(m) ==
    LET steps == Table[m].steps
    IN /\ \E r \in 1..Len(steps) : steps[r].kind = "reset"
       /\ \A i \in 1..Len(steps) :
            /\ ReturnsAtOnce(steps[i]) => RecordsReturn(steps[i])
            /\ steps[i].to = "go_on" => steps[i].says = "nothing" /\ Table[m].reports
            /\ steps[i].to = "cleanup" /\ MayFail(steps[i]) =>
                \/ steps[i].says = "err"
                \/ steps[i].kind = "test" /\ steps[i].errs = {steps[i].says} /\ SetsErr(steps[i])
                \/ /\ steps[i].says = "nothing" /\ Table[m].reports
                   /\ SetsErr(steps[i]) \/ \E r \in 1..(i - 1) : steps[r].kind = "reset"

(* How the method answers agrees with what it records. *)
AnswersAsRecorded(m) ==
    /\ ~Table[m].reports =>
        /\ Table[m].answers = "code"
        /\ Table[m].steps[Len(Table[m].steps)].kind = "call"
    /\ Table[m].answers = "value" => KeepsFailure(m)
    /\ Table[m].answers = "always_value" =>
        /\ ~Table[m].unset
        /\ \A i \in 1..Len(Table[m].steps) :
            LET s == Table[m].steps[i]
            IN ReturnsAtOnce(s) \/ ~MayFail(s) \/ (s.kind = "test" /\ s.errs = {"kept"})

ASSUME TableAssumption ==
    /\ "none" \notin Method
    /\ \A m \in Method :
        /\ Len(Table[m].steps) \in Nat
        /\ Table[m].reports \in BOOLEAN
        /\ Table[m].unset \in BOOLEAN
        /\ Table[m].answers \in {"code", "value", "always_value"}
        /\ \A i \in 1..Len(Table[m].steps) :
            /\ Table[m].steps[i].kind \in {"reset", "check", "own_check", "test", "err_test", "call"}
            /\ Table[m].steps[i].errs \subseteq Code \cup {"kept"}

ASSUME TidyAssumption == \A m \in Method : Tidy(m)

ASSUME StopsAssumption == \A m \in Method \ Unchecked : StopsBeforeCall(m)

ASSUME TellsAssumption == \A m \in Method \ Unfinished : TellsFailure(m)

(* close() neither forgets nor records an error. *)
ASSUME RecordsAssumption ==
    /\ "close" \in Unreported
    /\ \A m \in Method \ Unreported : RecordsFailure(m) /\ AnswersAsRecorded(m)

(* What a running method holds was made or lost by a step behind it. *)
HeldWasMade ==
    running # "none" =>
        /\ running \in Method
        /\ last = running
        /\ at \in Nat \ {0}
        /\ \A x \in held : \E j \in 1..Len(Steps) :
            j < at /\ x \in Steps[j].gives \cup Steps[j].loses

(* A method that runs holds only what the steps behind it made or lost,    *)
(* and one that has returned holds nothing but its known leaks: with the   *)
(* rules above, the CLEANUP labels of client/*.c free everything else.     *)
ReleaseInv == HeldWasMade /\ AllReleased

(* What runs is a method of the table, at a step of it or at CLEANUP, with *)
(* a code in err.                                                          *)
RunInv ==
    /\ usable \in {"invalid", "closed", "open"}
    /\ running # "none" =>
        /\ running \in Method
        /\ last = running
        /\ at \in 1..(Len(Steps) + 1)
        /\ err \in Code \cup {"unset"}

(* While a method goes on after a failure, the failure is in err and no    *)
(* test of err lies between the two.                                       *)
Pending == err # "OK" /\ \E i \in 1..(at - 1) :
    Steps[i].to = "go_on" /\ \A e \in (i + 1)..(at - 1) : Steps[e].kind # "err_test"

StopInv == InSteps /\ StopsBeforeCall(running) /\ failed => Pending

(* A failure is in err until CLEANUP has seen it. *)
KeepInv == running # "none" /\ KeepsFailure(running) /\ failed => err # "OK"

(* The methods that always answer with a value. *)
AlwaysInv == running # "none" /\ Table[running].answers = "always_value" =>
    /\ running \notin Unfinished => ~failed
    /\ running \notin Unreported => err = "OK"

(* The last error is forgotten until a step leaves; at CLEANUP the object  *)
(* has the code already, or CLEANUP records it.                            *)
ErrornoInv == running # "none" /\ running \notin Unreported =>
    /\ InSteps /\ (\E r \in 1..(at - 1) : Steps[r].kind = "reset") => errorno = "OK"
    /\ ~InSteps =>
        \/ errorno = err
        \/ Table[running].reports /\ (err = "OK" => errorno = "OK")

(* A call reports its outcome truthfully: the inductive invariant of       *)
(* RefusedIsUnsent, OkIsDone and ErrornoIsStatus.                          *)
ReportInv ==
    /\ RunInv /\ StopInv /\ KeepInv /\ AlwaysInv /\ ErrornoInv
    /\ OkIsDone /\ ErrornoIsStatus

=============================================================================
