------------------------------- MODULE RegExp -------------------------------
(***************************************************************************)
(* Regular expressions: one run of the matcher (PatternMachine), or one    *)
(* call of a built-in that loops over matches (RegExpText), at a time.     *)
(***************************************************************************)
EXTENDS PatternMachine, RegExpText

NoMatcher ==
  /\ program = <<>> /\ subject = <<>> /\ offset = 0 /\ phase = "idle" /\ result = Failure
  /\ pc = 1 /\ pos = 0 /\ caps = <<>> /\ counters = <<>> /\ stack = <<>>

NoLoop ==
  /\ op = "none" /\ search = <<>> /\ text = <<>> /\ number = 0 /\ template = <<>>
  /\ found = <<>> /\ loop = <<>> /\ out = <<>> /\ stage = "idle"

RInit == (VMInit /\ NoLoop) \/ (TInit /\ NoMatcher)

RNext ==
  \/ VMNext /\ UNCHANGED tvars
  \/ TNext /\ UNCHANGED vmvars

\* Both are calls that run until they return.
RSpec == RInit /\ [][RNext]_<<vmvars, tvars>> /\ WF_vmvars(VMNext) /\ WF_tvars(TNext)

\* A match always ends, also of patterns that repeat what can be empty
\* (STORE_POSITION and POSITION_TEST), and so does every loop over matches,
\* also over those that are empty.
CallsReturn == Ends /\ LoopsEnd
=============================================================================
