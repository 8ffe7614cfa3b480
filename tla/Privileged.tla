----------------------------- MODULE Privileged -----------------------------
(***************************************************************************)
(* One run of the privileged script under pkexec, and what the window says *)
(* of it: run_script and describe_failure (src/install.rs).  What a run    *)
(* changes is the caller's to say (SystemPage).                            *)
(***************************************************************************)
EXTENDS Naturals

VARIABLES
    run,      \* where it is, "off" when there is none
    said,     \* its output holds a line of the script's
    changed,  \* history: it has changed something
    code,     \* its exit status, or "signal"
    message   \* what the window said of the last run

runVars == <<run, said, changed, code, message>>

Codes    == {"none", "0", "1", "126", "127", "signal"}
Messages == {"none", "ok", "helper", "cancelled", "not authorized", "failed", "killed"}

RunTypeOK ==
    /\ run \in {"off", "helper", "auth", "script", "tell", "exited"}
    /\ said \in BOOLEAN /\ changed \in BOOLEAN
    /\ code \in Codes /\ message \in Messages

RunInit ==
    run = "off" /\ said = FALSE /\ changed = FALSE /\ code = "none" /\ message = "none"

RunScript ==
    /\ run' = "helper" /\ said' = FALSE /\ changed' = FALSE /\ code' = "none"
    /\ UNCHANGED message

\* helper_problem: the helper is this version's, or nothing is run.
CheckHelper ==
    /\ run = "helper"
    /\ \/ run' = "auth" /\ UNCHANGED code
       \/ run' = "exited" /\ code' = "none"
    /\ UNCHANGED <<said, changed, message>>

\* The user dismisses the dialog, is not allowed to, or the script starts.
Authenticate ==
    /\ run = "auth"
    /\ \/ run' = "script" /\ UNCHANGED code
       \/ run' = "exited" /\ code' \in {"126", "127"}
    /\ UNCHANGED <<said, changed, message>>

\* The script has started to print.
Say == run \in {"script", "tell"} /\ run' = "script" /\ said' = TRUE /\ UNCHANGED <<changed, code, message>>

\* A step of the script that changes the machine; some modes only tell of it
\* afterwards, and do nothing else before they do.
Change(silently) ==
    /\ run = "script" /\ (said \/ silently)
    /\ run' = IF said THEN "script" ELSE "tell"
    /\ changed' = TRUE
    /\ UNCHANGED <<said, code, message>>

\* Any exit status: set -e passes on that of a command that is missing (127) or
\* not executable (126); die and success have printed a line.
Exit(c) ==
    /\ run = "script" \/ (run = "tell" /\ c = "signal")
    /\ c \in {"0", "1"} => said
    /\ run' = "exited" /\ code' = c
    /\ UNCHANGED <<said, changed, message>>

\* Mutant: 126 and 127 are pkexec's.
DescribeByCode ==
    CASE code = "none" -> "helper"
      [] code = "0" -> "ok"
      [] code = "126" -> "cancelled"
      [] code = "127" -> "not authorized"
      [] code = "signal" -> "killed"
      [] OTHER -> "failed"

\* describe_failure: they are, if the script has printed nothing.
DescribeFailure ==
    CASE code = "none" -> "helper"
      [] code = "0" -> "ok"
      [] code = "126" /\ ~said -> "cancelled"
      [] code = "127" /\ ~said -> "not authorized"
      [] code = "signal" -> "killed"
      [] OTHER -> "failed"

\* The callback of the run.
Report ==
    /\ run = "exited" /\ run' = "off" /\ message' = DescribeFailure
    /\ said' = FALSE /\ code' = "none" /\ UNCHANGED changed

\* "Authentication was cancelled." and "Not authorized" are only said of runs
\* that have changed nothing: the script can end with 126 or 127 too.
CancelledChangedNothing ==
    message \in {"cancelled", "not authorized"} /\ run = "off" => ~changed
=============================================================================
