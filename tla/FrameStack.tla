----------------------------- MODULE FrameStack -----------------------------
(***************************************************************************)
(* The stack of values (lv5/stack.h) that the frames of the interpreter    *)
(* (railgun/stack.h, railgun/frame.h) and the argument lists of native     *)
(* code (ScopedArguments of lv5/context.h) share.                          *)
(*                                                                         *)
(* A frame is                                                              *)
(*   arguments, last first | this | header | registers                     *)
(* and what it calls takes its arguments where the caller has put them: a  *)
(* window of registers for the instruction CALL, an argument list for      *)
(* native code.  So frames overlap, and who is above whom differs from     *)
(* where the stack pointer is.                                             *)
(***************************************************************************)
EXTENDS Integers, SequencesExt, FiniteSetsExt

CONSTANTS
  StackCapacity,   \* kStackCapacity
  Header,     \* the cells of a Frame before its registers
  FrameCodes, \* what can be called: [params, size], size its registers
  MaxArgs,    \* bound: the arguments of a call
  MaxDepth    \* bound: the activations at a time

ASSUME FrameStackAssumption ==
  /\ StackCapacity \in Nat \ {0} /\ Header \in Nat \ {0} /\ MaxArgs \in Nat /\ MaxDepth \in Nat
  /\ FrameCodes \subseteq [params : Nat, size : Nat]

VARIABLES
  sp,     \* stack_pointer_, counted from the base of the stack
  calls,  \* the activations, innermost last
  told    \* how the last call began

fvars == <<sp, calls, told>>

\* An activation: a frame; a native function; an argument list of the native
\* function below it, or of the embedder when there is none.
\* needs: the registers of a frame whose values are still asked for.
FrameOf(from, base, code, inline) ==
  [is |-> "frame", from |-> from, base |-> base, code |-> code,
   inline |-> inline, needs |-> code.size]
NativeCall == [is |-> "native"]
ListAt(from, n) == [is |-> "list", from |-> from, n |-> n]

RegisterFile(f) == f.base + Header
GetFrameEnd(f) == RegisterFile(f) + f.code.size

Innermost == Last(calls)
InFrame == calls # <<>> /\ Innermost.is = "frame"
InNative == ~InFrame
InList == calls # <<>> /\ Innermost.is = "list"

FramesIn(s) == {i \in DOMAIN s : s[i].is = "frame"}

Fits(at, n) == at + n < StackCapacity
Missing(code, argc) == IF code.params > argc THEN code.params - argc ELSE 0

\* GainFrame for argc arguments that start at from: the missing ones push the
\* others up.  A frame that does not fit is a null pointer, unless there are
\* missing arguments: then they are copied to the null pointer plus diff.
Enter(s, from, argc, code, inline) ==
  LET diff == Missing(code, argc)
      top == from + argc + 1
      fits == Fits(top, Header + code.size + diff)
  IN /\ told' = IF fits THEN "entered" ELSE IF diff = 0 THEN "overflow" ELSE "wild"
     /\ sp' = IF fits THEN top + diff + Header + code.size ELSE sp
     /\ calls' = IF fits THEN Append(s, FrameOf(from, top + diff, code, inline)) ELSE calls

Needing(n) == [calls EXCEPT ![Len(calls)].needs = n]

\* CALL, EVAL, CONSTRUCT of a function of the program: the window begins at
\* register w, and what is behind it is not asked for any more.
CallInline(w, argc, code) ==
  /\ told # "wild" /\ InFrame /\ w + argc + 1 <= Innermost.code.size
  /\ Enter(Needing(w), RegisterFile(Innermost) + w, argc, code, TRUE)

\* The same of a native function: the window is its arguments.
CallNative(w, argc) ==
  /\ told # "wild" /\ InFrame /\ w + argc + 1 <= Innermost.code.size
  /\ calls' = Append(Needing(w + argc + 1), NativeCall)
  /\ told' = "entered"
  /\ UNCHANGED sp

\* ScopedArguments: n cells and this.
NewList(n) ==
  /\ told # "wild" /\ InNative
  /\ IF Fits(sp, n + 1)
     THEN /\ sp' = sp + n + 1 /\ calls' = Append(calls, ListAt(sp, n)) /\ told' = "entered"
     ELSE UNCHANGED <<sp, calls>> /\ told' = "overflow"

DropList ==
  /\ told # "wild" /\ InList
  /\ sp' = Innermost.from
  /\ calls' = Front(calls)
  /\ UNCHANGED told

\* Execute of a function or of eval code with the list, by native code.
Execute(code) ==
  /\ told # "wild" /\ InList
  /\ Enter(calls, Innermost.from, Innermost.n, code, FALSE)

\* A native function that native code calls with its list.
Invoke ==
  /\ told # "wild" /\ InList
  /\ calls' = Append(calls, NativeCall) /\ told' = "entered"
  /\ UNCHANGED sp

Resumed(s) ==
  IF s # <<>> /\ s[Len(s)].is = "frame" THEN [s EXCEPT ![Len(s)].needs = s[Len(s)].code.size] ELSE s

LeaveNative ==
  /\ told # "wild" /\ calls # <<>> /\ Innermost.is = "native"
  /\ calls' = Resumed(Front(calls))
  /\ UNCHANGED <<sp, told>>

\* Unwind: of a return and of an exception alike.  Below the first frame the
\* lists of the embedder are not looked at.
\* Mutant: the frame that goes on is restored, whoever called.
RestoreEnd(frame) ==
  IF FramesIn(Front(calls)) = {} THEN 0 ELSE GetFrameEnd(calls[Max(FramesIn(Front(calls)))])
RestoreTo(frame) ==
  IF FramesIn(Front(calls)) = {} THEN 0
  ELSE LET end == GetFrameEnd(calls[Max(FramesIn(Front(calls)))])
       IN IF end > frame.base THEN end ELSE frame.base
Unwind ==
  /\ told # "wild" /\ InFrame
  /\ sp' = RestoreTo(Innermost)
  /\ calls' = Resumed(Front(calls))
  /\ UNCHANGED told

FInit == sp = 0 /\ calls = <<>> /\ told = "entered"
FNext ==
  \/ /\ Len(calls) < MaxDepth
     /\ \/ \E n \in 0..MaxArgs : NewList(n)
        \/ Invoke
        \/ \E code \in FrameCodes : Execute(code)
        \/ /\ InFrame
           /\ \E w \in 0..Innermost.code.size, argc \in 0..MaxArgs :
                CallNative(w, argc) \/ \E code \in FrameCodes : CallInline(w, argc, code)
  \/ DropList \/ LeaveNative \/ Unwind
FSpec == FInit /\ [][FNext]_fvars

-----------------------------------------------------------------------------
(* Properties                                                              *)

\* The cells whose values an activation still asks for: a list that a frame
\* was entered with belongs to the frame.
Asked(i) ==
  CASE calls[i].is = "frame" -> calls[i].from..(RegisterFile(calls[i]) + calls[i].needs - 1)
    [] calls[i].is = "list" /\ (i = Len(calls) \/ calls[i + 1].is # "frame") ->
         calls[i].from..(calls[i].from + calls[i].n)
    [] OTHER -> {}
Within == {i \in DOMAIN calls : FramesIn(SubSeq(calls, 1, i)) # {}}

\* What the collector looks at (MarkChildren): of each frame the registers up
\* to the next frame, of the last one up to the stack pointer.
Marked ==
  LET fs == FramesIn(calls)
      upTo(i) == IF \E j \in fs : j > i THEN calls[Min({j \in fs : j > i})].base
                 ELSE sp
  IN UNION {RegisterFile(calls[i])..(upTo(i) - 1) : i \in fs}
Headers == UNION {calls[i].base..(RegisterFile(calls[i]) - 1) : i \in FramesIn(calls)}

\* From the first frame on, no two activations ask for the same cell, all they
\* ask for is below the stack pointer, where the next one begins, and the
\* collector sees every value they still need, through any nesting of calls in
\* place and calls by native code, with missing arguments, and through
\* returns, exceptions and stack overflows.
ActivationsApart ==
  told # "wild" =>
    /\ \A i, j \in Within : i # j => Asked(i) \cap Asked(j) = {}
    /\ \A i \in Within : \A c \in Asked(i) : c < sp
    /\ \A i \in Within : \A c \in Asked(i) :
         c \in Marked \cup Headers \/ c < calls[Min(FramesIn(calls))].base
    /\ sp < StackCapacity
=============================================================================
