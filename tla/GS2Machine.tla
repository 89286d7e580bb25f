----------------------------- MODULE GS2Machine -----------------------------
(***************************************************************************)
(* How GS2 virtual machines run (reborn_protocol/gs2/vm.py): frames, the   *)
(* instruction budget, the error limit, calls within a script, into the    *)
(* classes it joined and through the host into any script, and coroutines  *)
(* that sleep or wait.                                                     *)
(*                                                                         *)
(* Everything runs on one thread.  The host is called back in the middle   *)
(* of an instruction and may call a script from there; it starts and       *)
(* resumes coroutines only between events.  What an instruction does to    *)
(* its operands is the business of GS2Operands.                            *)
(***************************************************************************)
EXTENDS Integers, Sequences, SequencesExt, FiniteSetsExt

CONSTANTS VM,         \* virtual machines, one per script
          Joined,     \* VM -> the classes it joined
          Coro,       \* slots for coroutines, made by iter_call
          MaxOps,     \* max_ops
          MaxErrors,  \* max_errors
          Reentry,    \* whether a VM with a frame on the stack may be entered
          MaxDepth,   \* bound: frames on the stack
          None

ASSUME MachineAssumption ==
    /\ Joined \in [VM -> SUBSET VM]
    /\ MaxOps \in Nat \ {0} /\ MaxErrors \in Nat /\ MaxDepth \in Nat
    /\ Reentry \in BOOLEAN /\ None \notin Coro

VARIABLES ops,        \* VM -> _ops_used
          errors,     \* VM -> _errors, up to one more than the limit
          mode,       \* VM -> _call_coro_mode
          stack,      \* the frames on the Python stack, innermost last
          suspended,  \* Coro -> its frames and what it waits for, or None
          taken       \* history: the coroutines whose count others ran with

vars == <<ops, errors, mode, stack, suspended, taken>>

\* A frame of _execute, or of _gcall_target ("host").  kind tells how it was
\* entered; coro is None where coro_mode is off.  An "event" or "sync" frame
\* begins a run: used and failed count, as history, the instructions since the
\* run began or last slept, and the errors since it began, each up to one more
\* than its limit.
Frame(vm, kind, coro) ==
    [vm |-> vm, kind |-> kind, coro |-> coro, used |-> 0, failed |-> 0,
     saved |-> FALSE]

Runs     == {"event", "sync"}
Base(s)  == Max({i \in 1 .. Len(s) : s[i].kind \in Runs})
Top      == Last(stack)
InUse    == {stack[i].vm : i \in 1 .. Len(stack)}

Free(vm) == Reentry \/ vm \notin InUse

\* A coroutine that waits goes on with the counter of the last machine it came
\* to, whoever has used that in between.
Waits(c)   == suspended[c] # None /\ suspended[c].for = "wait"
WaitsIn(c) == Last(suspended[c].frames).vm

\* The runs of Coro whose count begins anew: they are over, or behind a sleep.
Anew == {c \in Coro : stack = <<>> /\ ~ Waits(c)}

\* While a coroutine waits, its machine comes into use: a part of every action.
History == taken' = (taken \ Anew) \cup
               {c \in Coro : Waits(c) /\ Waits(c)' /\ WaitsIn(c) \in InUse'}

\* Fault: the joined machine's count is not handed back.
PoppedOnly(s) ==
    LET f == Last(s.stack)
    IN  [s EXCEPT !.stack = Front(s.stack),
                  !.mode  = IF f.kind = "host" THEN [@ EXCEPT ![f.vm] = f.saved]
                                               ELSE @]

\* The innermost frame is left: _gcall_script takes the count over from a
\* joined machine, _gcall_target restores the mode in its finally clause.
Popped(s) ==
    LET f == Last(s.stack)
    IN  [stack |-> Front(s.stack),
         ops   |-> IF f.kind = "joined"
                   THEN [s.ops EXCEPT ![Last(Front(s.stack)).vm] = s.ops[f.vm]]
                   ELSE s.ops,
         mode  |-> IF f.kind = "host" THEN [s.mode EXCEPT ![f.vm] = f.saved]
                                      ELSE s.mode]

Now       == [stack |-> stack, ops |-> ops, mode |-> mode]
Become(s) == stack' = s.stack /\ ops' = s.ops /\ mode' = s.mode

\* Fault: the budget is not looked at.
BudgetedNever == stack # <<>> /\ Top.kind # "host"

\* _execute is about to run an instruction.
Budgeted == stack # <<>> /\ Top.kind # "host" /\ ops[Top.vm] < MaxOps

\* Fault: it does not count it.
CountedNever == Now

\* It has counted it.
Counted == [stack |-> [stack EXCEPT ![Base(stack)].used =
                                     IF @ > MaxOps THEN @ ELSE @ + 1],
            ops   |-> [ops EXCEPT ![Top.vm] = @ + 1],
            mode  |-> mode]

Push(s, frame) == [s EXCEPT !.stack = Append(@, frame)]

-----------------------------------------------------------------------------
Init == /\ ops = [vm \in VM |-> 0] /\ errors = [vm \in VM |-> 0]
        /\ mode = [vm \in VM |-> FALSE]
        /\ stack = <<>> /\ suspended = [c \in Coro |-> None]
        /\ taken = {}

\* _start_execution
Start(s, vm, kind, coro) ==
    /\ Become([Push(s, Frame(vm, kind, coro)) EXCEPT !.ops[vm] = 0])
    /\ errors' = [errors EXCEPT ![vm] = 0]

\* The host fires an event: call, or run_toplevel.
Call(vm) == /\ stack = <<>> /\ Free(vm)
            /\ Start(Now, vm, "event", None)
            /\ UNCHANGED suspended /\ History

\* iter_call, and the first next(): hosts start what they create.
IterCall(vm, c) == /\ stack = <<>> /\ Free(vm) /\ suspended[c] = None
                   /\ Start(Now, vm, "event", c)
                   /\ UNCHANGED suspended /\ History

\* An instruction that stays within its frame; also OP_SLEEP in a run that is
\* no coroutine.
Step == Budgeted /\ Become(Counted) /\ UNCHANGED <<errors, suspended>> /\ History

\* The except clause of _execute: s is the state the exception is met in; the
\* frame goes on behind the instruction, or is left when that was one error
\* too many.
Failing(s) ==
    LET vm == Last(s.stack).vm
        n  == IF errors[vm] > MaxErrors THEN errors[vm] ELSE errors[vm] + 1
        t  == [s EXCEPT !.stack[Base(s.stack)].failed =
                            IF @ > MaxErrors THEN @ ELSE @ + 1]
    IN  /\ errors' = [errors EXCEPT ![vm] = n]
        /\ Become(IF n > MaxErrors THEN Popped(t) ELSE t)
        /\ UNCHANGED suspended /\ History

Fail == Budgeted /\ Failing(Counted)

\* _execute returns: OP_RET, the end of the code, or the budget is used up.
Leave == /\ stack # <<>> /\ Top.kind # "host"
         /\ Become(Popped(Now))
         /\ UNCHANGED <<errors, suspended>> /\ History

\* _gcall_script: a function of this script, or of a class it joined.
CallOwn == /\ Budgeted /\ Len(stack) < MaxDepth
           /\ Become(Push(Counted, Frame(Top.vm, "own", Top.coro)))
           /\ UNCHANGED <<errors, suspended>> /\ History

CallJoined(j) ==
    /\ Budgeted /\ Len(stack) < MaxDepth
    /\ j \in Joined[Top.vm] /\ Free(j)
    /\ LET s == Counted
       IN  Become([Push(s, Frame(j, "joined", Top.coro))
                     EXCEPT !.ops[j] = s.ops[Top.vm]])
    /\ UNCHANGED <<errors, suspended>> /\ History

\* Fault: the mode is saved and restored, but not set.
CallTargetUnset ==
    /\ Budgeted /\ Len(stack) < MaxDepth
    /\ Become(Push(Counted, [Frame(Top.vm, "host", Top.coro)
                               EXCEPT !.saved = mode[Top.vm]]))
    /\ UNCHANGED <<errors, suspended>> /\ History

\* _gcall_target hands the call to _call_target, which ends up in the host or
\* in something it can call.
CallTarget ==
    /\ Budgeted /\ Len(stack) < MaxDepth
    /\ Become([Push(Counted, [Frame(Top.vm, "host", Top.coro)
                                EXCEPT !.saved = mode[Top.vm]])
                 EXCEPT !.mode[Top.vm] = Top.coro # None])
    /\ UNCHANGED <<errors, suspended>> /\ History

InHost == stack # <<>> /\ Top.kind = "host"

\* From there vm.call runs a function to its end, synchronously; used counts
\* that the host does it once.
HostCalls(vm) ==
    /\ InHost /\ Top.used = 0 /\ Len(stack) < MaxDepth /\ Free(vm)
    /\ Start([Now EXCEPT !.stack[Len(stack)].used = 1], vm, "sync", None)
    /\ UNCHANGED suspended /\ History

\* The target's value is pushed for the caller.
HostReturns == InHost /\ Become(Popped(Now)) /\ UNCHANGED <<errors, suspended>> /\ History

\* It raises, and the caller's instruction fails.
HostRaises == InHost /\ Failing(Popped(Now))

\* The generator yields to the host with s as its frames.
Yield(s, for) ==
    /\ suspended' = [suspended EXCEPT ![Last(s.stack).coro] =
                        [frames |-> s.stack, for |-> for]]
    /\ Become([s EXCEPT !.stack = <<>>])
    /\ UNCHANGED errors /\ History

\* It returns a VMCoroutineWait, as call_is_suspendable lets it.
HostWaits == InHost /\ Top.coro # None /\ Yield(Popped(Now), "wait")

\* OP_SLEEP of a coroutine.
Sleep == Budgeted /\ Top.coro # None /\ Yield(Counted, "sleep")

\* The host pumps a coroutine: behind a sleep the count begins anew.
Resume(c) ==
    /\ stack = <<>> /\ suspended[c] # None
    /\ LET frames == suspended[c].frames
       IN  IF suspended[c].for = "sleep"
           THEN /\ stack' = [frames EXCEPT ![Base(frames)].used = 0]
                /\ ops' = [ops EXCEPT ![Last(frames).vm] = 0]
           ELSE stack' = frames /\ UNCHANGED ops
    /\ suspended' = [suspended EXCEPT ![c] = None]
    /\ UNCHANGED <<errors, mode>> /\ History

\* The host forgets a coroutine.
Drop(c) == /\ stack = <<>> /\ suspended[c] # None
           /\ suspended' = [suspended EXCEPT ![c] = None]
           /\ UNCHANGED <<ops, errors, mode, stack>> /\ History

\* What goes on by itself: the machine, and a host that was called.
Run == \/ Step \/ Fail \/ Leave \/ CallOwn \/ CallTarget \/ Sleep
       \/ \E j \in VM : CallJoined(j)
       \/ \E vm \in VM : HostCalls(vm)
       \/ HostReturns \/ HostRaises \/ HostWaits

Next == \/ Run
        \/ \E vm \in VM : Call(vm) \/ \E c \in Coro : IterCall(vm, c)
        \/ \E c \in Coro : Resume(c) \/ Drop(c)

\* One thread: an event that has begun goes on.
Spec == Init /\ [][Next]_vars /\ WF_vars(Run)

-----------------------------------------------------------------------------
\* Type invariant.
TypeOK == /\ ops \in [VM -> 0 .. MaxOps] /\ errors \in [VM -> 0 .. MaxErrors + 1]
          /\ mode \in [VM -> BOOLEAN] /\ taken \subseteq Coro
          /\ \A i \in 1 .. Len(stack) : stack[i].vm \in VM
          /\ stack # <<>> => stack[1].kind = "event"
          /\ \A c \in Coro : suspended[c] # None =>
                \A i \in 1 .. Len(suspended[c].frames) :
                    suspended[c].frames[i].coro = c

\* "default instruction budget per event invocation (incl. nested calls)": the
\* counter a frame looks at is the number of instructions of its own run,
\* across joined machines, sleeps and whatever ran in between, so that a run
\* is neither cut short nor let go on by another one's instructions.  Unless it
\* waited and its machine was used meanwhile: call and iter_call reset the count
\* of a machine, also under a coroutine that waits there.
CounterIsOwn ==
    (stack # <<>> /\ Top.kind # "host" /\ stack[Base(stack)].coro \notin taken)
        => ops[Top.vm] = stack[Base(stack)].used

\* "The instruction budget limits every run to max_ops."
RunBounded == \A i \in 1 .. Len(stack) :
                 stack[i].kind \in Runs => stack[i].used <= MaxOps

\* As far as it is so: of the runs whose count nobody else ran with.
UntakenBounded == \A i \in 1 .. Len(stack) :
                     stack[i].kind \in Runs /\ stack[i].coro \notin taken =>
                         stack[i].used <= MaxOps

\* "Whether the host callback currently running may yield a wait": exactly when
\* nothing between it and the host's pump is a synchronous call.
SuspendableRight ==
    InHost => (mode[Top.vm] <=> \A i \in 1 .. Len(stack) : stack[i].kind # "sync"
                                   /\ stack[i].coro # None)

-----------------------------------------------------------------------------
(* What the invariants rest on: how frames lie on each other.              *)

Kinds     == Runs \cup {"own", "joined", "host"}
FrameType == [vm : VM, kind : Kinds, coro : Coro \cup {None}, used : Nat,
              failed : Nat, saved : BOOLEAN]

\* An event is at the bottom and a synchronous call on a host frame; any other
\* frame belongs to the run and, but for a joined class, to the machine of the
\* frame below it.
Nested(s) ==
    /\ \A i \in 1 .. Len(s) : s[i].kind = "event" <=> i = 1
    /\ \A i \in 2 .. Len(s) :
          IF s[i - 1].kind = "host" THEN s[i].kind = "sync" /\ s[i].coro = None
          ELSE /\ s[i].kind # "sync" /\ s[i].coro = s[i - 1].coro
               /\ s[i].kind # "joined" => s[i].vm = s[i - 1].vm

\* Below a frame of a coroutine everything belongs to that coroutine.
Unbroken(s) ==
    \A i \in 1 .. Len(s) : s[i].coro # None =>
        \A j \in 1 .. i : s[j].kind # "sync" /\ s[j].coro = s[i].coro

\* The mode m is that of a machine's last host frame, and the frame holds the
\* mode of the one before.
HostOf(s, i, vm)    == s[i].kind = "host" /\ s[i].vm = vm
NoHost(s, i, k, vm) == \A l \in i .. k : ~ HostOf(s, l, vm)

ModeKept(s, m) ==
    \A i \in 1 .. Len(s) : s[i].kind = "host" =>
        /\ NoHost(s, i + 1, Len(s), s[i].vm) =>
              (m[s[i].vm] <=> s[i].coro # None)
        /\ \A k \in i + 1 .. Len(s) :
              HostOf(s, k, s[i].vm) /\ NoHost(s, i + 1, k - 1, s[i].vm) =>
                  (s[k].saved <=> s[i].coro # None)

Slot == {None} \cup [frames : Seq(FrameType) \ {<<>>}, for : {"sleep", "wait"}]

\* The frames s of a suspended coroutine are its own, and no call to the host.
Parked(s, c) == /\ Nested(s)
                /\ \A i \in 1 .. Len(s) : /\ s[i].coro = c
                                          /\ s[i].kind \notin {"sync", "host"}

MachineInv ==
    /\ stack \in Seq(FrameType) /\ suspended \in [Coro -> Slot]
    /\ Nested(stack) /\ Unbroken(stack) /\ ModeKept(stack, mode)
    /\ \A c \in Coro : suspended[c] # None => Parked(suspended[c].frames, c)

\* The frames of a machine lie together, in one run.
Apart(s) == \A i \in 1 .. Len(s) : \A k \in i + 1 .. Len(s) :
               s[i].vm = s[k].vm => \A l \in i + 1 .. k :
                   s[l].vm = s[i].vm /\ s[l].kind \in {"own", "host"}

\* Of the frames up to k, i begins the last run.
Begins(s, i, k) == /\ s[i].kind \in Runs
                   /\ \A l \in i + 1 .. k : s[l].kind \notin Runs

\* The counter o of every run but those of T, the current one and those that
\* wait below it for a synchronous call, is that of the last machine it came to.
CountKept(s, o, T) ==
    \A k \in 1 .. Len(s) : (k = Len(s) \/ s[k + 1].kind = "sync") =>
        \A i \in 1 .. k : Begins(s, i, k) /\ s[i].coro \notin T =>
            o[s[k].vm] = s[i].used

\* A coroutine that waits holds the counter of its machine until that is taken.
CounterInv ==
    /\ Apart(stack) /\ CountKept(stack, ops, taken) /\ UntakenBounded
    /\ \A c \in Coro : suspended[c] # None => Apart(suspended[c].frames)
    /\ \A c \in Coro : Waits(c) /\ c \notin taken =>
          /\ ops[WaitsIn(c)] = suspended[c].frames[1].used
          /\ suspended[c].frames[1].used <= MaxOps
          /\ WaitsIn(c) \notin InUse

\* Every event comes to an end, or to a sleep or a wait.
Terminates == stack # <<>> ~> stack = <<>>
=============================================================================
