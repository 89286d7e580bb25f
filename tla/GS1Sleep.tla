------------------------------ MODULE GS1Sleep ------------------------------
(***************************************************************************)
(* GS1 event executions that share one Context (reborn_protocol/gs1):      *)
(* Interpreter.run_event, which runs to its end, run_event_resumable,      *)
(* which a sleep or the statement budget suspends, and the host that       *)
(* resumes, cancels or drops what is suspended.                            *)
(*                                                                         *)
(* Everything runs on one thread and the host is called back only between  *)
(* slices: while some execution is `running`, only its statements step.    *)
(*                                                                         *)
(* A script is its statements in textual order, blocks closed by "end".    *)
(* Leaf statements that touch nothing modelled are "act"; if, switch, for  *)
(* and calls inside an expression are left out.                            *)
(***************************************************************************)
EXTENDS Integers, Sequences, FiniteSets, FiniteSetsExt

CONSTANTS Resumable,   \* executions started by run_event_resumable
          Sync,        \* executions started by run_event
          Script,      \* scripts the host can fire, each with an event name
          Program,     \* Script -> sequence of statements
          ScriptsFor,  \* Interpreter.statement_budget (0: none) -> the
                       \* scripts the host fires under it
          MaxSteps,    \* Context.max_steps
          Npc,         \* the object a script is attached to
          None

Exec == Resumable \cup Sync

\* end: for a block statement, the place of the "end" that closes it.
Statement == [op  : {"act", "timeout", "sleep", "break", "return",
                     "while", "with", "call", "end"},
              arg : Nat, end : Nat]

\* A script is a tree: blocks close at an "end" of their own, and lie within
\* each other or apart.
IsBlock(p, j) == p[j].op \in {"while", "with", "call"}

Tree(p) ==
    /\ \A j \in 1 .. Len(p) : IsBlock(p, j) =>
          p[j].end \in j + 1 .. Len(p) /\ p[p[j].end].op = "end"
    /\ \A j \in 1 .. Len(p) : \A k \in j + 1 .. Len(p) :
          IsBlock(p, j) /\ IsBlock(p, k) =>
              p[j].end < k \/ p[k].end < p[j].end
    /\ \A i \in 1 .. Len(p) : p[i].op = "end" =>
          \E j \in 1 .. Len(p) : IsBlock(p, j) /\ p[j].end = i

ASSUME SleepAssumption ==
    /\ Resumable \cap Sync = {}
    /\ None \notin Exec \cup Script \cup {"sleep", "preempted"}
    /\ Program \in [Script -> Seq(Statement)]
    /\ \A s \in Script : Tree(Program[s])
    /\ DOMAIN ScriptsFor \subseteq Nat /\ MaxSteps \in Nat
    /\ \A b \in DOMAIN ScriptsFor : ScriptsFor[b] \subseteq Script

VARIABLES budget,    \* Interpreter.statement_budget
          ctx,       \* the shared Context
          exec,      \* one ResumableExecution, or run_event call, per slot
          running,   \* the execution on the Python stack, or None
          doomed,    \* history: asleep when another execution set the timeout
          slice      \* history: statements since the host last got control

vars == <<budget, ctx, exec, running, doomed, slice>>

Idle == [status |-> "idle", script |-> None, pc |-> 1, frames |-> <<>>,
         pending |-> None, counted |-> FALSE, base |-> Npc]

\* One frame per block entered: what its finally clause restores.
Frame(kind, val, saved, end) ==
    [kind |-> kind, val |-> val, saved |-> saved, end |-> end]

-----------------------------------------------------------------------------
Code(e)      == Program[exec[e].script]
Stmt(e)      == Code(e)[exec[e].pc]
AtEnd(e)     == exec[e].pc > Len(Code(e))
Top(frames)  == frames[Len(frames)]

\* The innermost frame of a kind, 0 if there is none.
Innermost(frames, kind) ==
    Max({0} \cup {i \in 1 .. Len(frames) : frames[i].kind = kind})

\* Fault: only the innermost finally clause takes effect.
RestoredInnermost(frames, k, kind, current) ==
    LET popped == {i \in k + 1 .. Len(frames) : frames[i].kind = kind}
    IN  IF popped = {} THEN current ELSE frames[Max(popped)].saved

\* The value of a field once the finally clauses of the frames above the
\* first k have run, innermost first: the outermost of them wins.
Restored(frames, k, kind, current) ==
    LET popped == {i \in k + 1 .. Len(frames) : frames[i].kind = kind}
    IN  IF popped = {} THEN current ELSE frames[Min(popped)].saved

\* Fault: the with block has no finally clause.
UnwoundParamOnly(c, frames, k) ==
    [c EXCEPT !.param = Restored(frames, k, "call", @)]

Unwound(c, frames, k) ==
    [c EXCEPT !.this  = Restored(frames, k, "with", @),
              !.param = Restored(frames, k, "call", @)]

\* _step: which of its three outcomes the next statement gets.
Preempted(e) == /\ e \in Resumable /\ budget > 0 /\ ctx.steps + 1 > budget
Exhausted(e) == ~ Preempted(e) /\ ctx.steps + 1 > MaxSteps

\* The execution stands before a statement _step lets through, and the steps
\* after it: one that was preempted has been counted by resume.
Ready(e, op) ==
    /\ running = e /\ ~ AtEnd(e) /\ Stmt(e).op = op
    /\ exec[e].counted \/ ~ (Preempted(e) \/ Exhausted(e))
Steps(e) == IF exec[e].counted THEN ctx.steps ELSE ctx.steps + 1

\* e leaves its statement, done with everything above its first k frames.
Go(e, pc, k) == [exec EXCEPT ![e].pc = pc, ![e].counted = FALSE,
                             ![e].frames = SubSeq(@, 1, k)]
Enter(e, frame) ==
    [exec EXCEPT ![e].pc = @ + 1, ![e].counted = FALSE,
                 ![e].frames = Append(@, frame)]
Counted(e) == [ctx EXCEPT !.steps = Steps(e)]
Executed   == slice' = slice + 1 /\ UNCHANGED running

-----------------------------------------------------------------------------
Init == /\ budget \in DOMAIN ScriptsFor
        /\ ctx = [this |-> Npc, param |-> None, cancelled |-> FALSE,
                  steps |-> 0, event |-> None]
        /\ exec = [e \in Exec |-> Idle]
        /\ running = None
        /\ doomed = {}
        /\ slice = 0

\* run_event, and run_event_resumable up to its first statement.
Fire(e, s) ==
    /\ running = None /\ exec[e].status = "idle"
    /\ exec' = [exec EXCEPT ![e] = [Idle EXCEPT !.status = "running",
                                                !.script = s, !.base = ctx.this]]
    /\ ctx' = [ctx EXCEPT !.event = s]
    /\ running' = e /\ slice' = 0
    /\ UNCHANGED doomed

\* A leaf statement.
Act(e) == /\ Ready(e, "act")
          /\ ctx' = Counted(e)
          /\ exec' = Go(e, exec[e].pc + 1, Len(exec[e].frames))
          /\ Executed /\ UNCHANGED doomed

\* _st_Assign of a bare `timeout = x`.
Asleep == {e \in Exec : exec[e].status = "suspended" /\ exec[e].pending = "sleep"}

Timeout(e) == /\ Ready(e, "timeout")
              /\ ctx' = [Counted(e) EXCEPT !.cancelled = TRUE]
              /\ exec' = Go(e, exec[e].pc + 1, Len(exec[e].frames))
              /\ doomed' = doomed \cup Asleep
              /\ Executed

\* _gx of With and _gcall_user: bind, and remember what was bound before.
With(e) == /\ Ready(e, "with")
           /\ ctx' = [Counted(e) EXCEPT !.this = Stmt(e).arg]
           /\ exec' = Enter(e, Frame("with", Stmt(e).arg, ctx.this, Stmt(e).end))
           /\ Executed /\ UNCHANGED doomed

Call(e) == /\ Ready(e, "call")
           /\ ctx' = [Counted(e) EXCEPT !.param = Stmt(e).arg]
           /\ exec' = Enter(e, Frame("call", Stmt(e).arg, ctx.param, Stmt(e).end))
           /\ Executed /\ UNCHANGED doomed

\* _gx of While: the statement is counted, then control is at the loop head,
\* which for a script is the loop's "end".
While(e) ==
    /\ Ready(e, "while")
    /\ ctx' = Counted(e)
    /\ exec' = [Enter(e, Frame("while", Stmt(e).arg, exec[e].pc + 1, Stmt(e).end))
                   EXCEPT ![e].pc = Stmt(e).end]
    /\ Executed /\ UNCHANGED doomed

\* The end of a with block or of a function body.
EndBlock(e) ==
    LET frames == exec[e].frames
        k      == Len(frames) - 1
    IN  /\ running = e /\ ~ AtEnd(e) /\ Stmt(e).op = "end"
        /\ Top(frames).kind # "while"
        /\ ctx' = Unwound(ctx, frames, k)
        /\ exec' = Go(e, exec[e].pc + 1, k)
        /\ UNCHANGED <<running, doomed, slice>>

\* The head of a While whose condition has held val more times.  It calls
\* _step and ignores the result, so a slice over its budget goes on.
HeadSteps(e) == IF Preempted(e) THEN 0 ELSE ctx.steps + 1

LoopHead(e) ==
    LET frames == exec[e].frames
        n      == Len(frames)
    IN  /\ running = e /\ ~ AtEnd(e) /\ Stmt(e).op = "end"
        /\ Top(frames).kind = "while"
        /\ IF Top(frames).val = 0
           THEN exec' = Go(e, exec[e].pc + 1, n - 1) /\ UNCHANGED ctx
           ELSE /\ ~ Exhausted(e)
                /\ exec' = [exec EXCEPT ![e].pc = Top(frames).saved,
                                        ![e].frames[n].val = @ - 1]
                /\ ctx' = [ctx EXCEPT !.steps = HeadSteps(e)]
        /\ UNCHANGED <<running, doomed, slice>>

\* BreakSignal and ReturnSignal: caught by the innermost While or function, or
\* else by the loop over the top-level statements.
Signal(e, kind) ==
    LET frames == exec[e].frames
        k      == Innermost(frames, kind)
        caught == IF k = 0 THEN 1 ELSE k
    IN  /\ IF frames = <<>>
           THEN exec' = Go(e, exec[e].pc + 1, 0) /\ ctx' = Counted(e)
           ELSE /\ exec' = Go(e, frames[caught].end + 1, caught - 1)
                /\ ctx' = Unwound(Counted(e), frames, caught - 1)
        /\ Executed /\ UNCHANGED doomed

Break(e)  == Ready(e, "break") /\ Signal(e, "while")
Return(e) == Ready(e, "return") /\ Signal(e, "call")

\* sleep in a synchronous run leaves the innermost loop, if it is in one.
SyncSleep(e) ==
    /\ e \in Sync /\ Ready(e, "sleep")
    /\ IF Innermost(exec[e].frames, "while") > 0
       THEN Signal(e, "while")
       ELSE /\ ctx' = Counted(e)
            /\ exec' = Go(e, exec[e].pc + 1, Len(exec[e].frames))
            /\ Executed /\ UNCHANGED doomed

\* Fault: _advance leaves the flag as it is.
YieldFlagged(c) == ctx' = c /\ running' = None /\ UNCHANGED doomed

\* The generator yields and _advance returns to the host: whatever cancelled
\* stands for by now is this execution's own doing.
Yield(c) ==
    /\ ctx' = [c EXCEPT !.cancelled = FALSE]
    /\ running' = None
    /\ UNCHANGED doomed

Sleep(e) ==
    /\ e \in Resumable /\ Ready(e, "sleep")
    /\ exec' = [Go(e, exec[e].pc + 1, Len(exec[e].frames))
                   EXCEPT ![e].status = "suspended", ![e].pending = "sleep"]
    /\ Yield(Counted(e))
    /\ slice' = slice + 1

\* Fault: the counter is not reset, and resume counts the statement again.
PreemptRecounting(e) ==
    /\ running = e /\ ~ AtEnd(e) /\ Stmt(e).op # "end" /\ Preempted(e)
    /\ exec' = [exec EXCEPT ![e].status = "suspended", ![e].pending = "preempted"]
    /\ Yield(ctx)
    /\ UNCHANGED slice

\* _step found the budget used up: the statement waits for the next slice.
Preempt(e) ==
    /\ running = e /\ ~ AtEnd(e) /\ Stmt(e).op # "end"
    /\ ~ exec[e].counted /\ Preempted(e)
    /\ exec' = [exec EXCEPT ![e].status = "suspended", ![e].pending = "preempted",
                            ![e].counted = TRUE]
    /\ Yield([ctx EXCEPT !.steps = 0])
    /\ UNCHANGED slice

\* _step raised RuntimeError out of run_event or next(gen): the finally clauses
\* run, but nobody marks the ResumableExecution done.  One that raised in its
\* constructor was never handed to the host.
StepLimit(e) ==
    LET x == exec[e]
    IN  /\ running = e /\ ~ AtEnd(e) /\ ~ x.counted /\ Exhausted(e)
        /\ Stmt(e).op = "end" => Top(x.frames).kind = "while" /\ Top(x.frames).val > 0
        /\ ctx' = [Unwound(ctx, x.frames, 0) EXCEPT !.steps = MaxSteps + 1]
        /\ exec' = [exec EXCEPT ![e] = IF x.pending = None THEN Idle ELSE
                        [Idle EXCEPT !.status = "raised", !.script = x.script,
                                     !.pending = x.pending]]
        /\ running' = None
        /\ UNCHANGED <<doomed, slice>>

\* run_event returns, or the generator is exhausted.
Finish(e) == /\ running = e /\ AtEnd(e)
             /\ exec' = [exec EXCEPT ![e] = Idle]
             /\ running' = None
             /\ UNCHANGED <<ctx, doomed, slice>>

\* Fault: done is set without closing the generator.
DiscardedUnclosed(e) == /\ exec' = [exec EXCEPT ![e].status = "idle"]
                        /\ doomed' = doomed \ {e}

\* resume() of an execution that was cancelled: gen.close() runs the finally
\* clauses of the suspended frames.
Discarded(e) == /\ exec' = [exec EXCEPT ![e] = Idle]
                /\ doomed' = doomed \ {e}

\* Fault: resume returns early and leaves the cancelled execution pending.
ResumeCancelledIgnored(e) ==
    /\ running = None /\ exec[e].status \in {"suspended", "raised"}
    /\ ctx.cancelled
    /\ UNCHANGED vars

ResumeCancelled(e) ==
    /\ running = None /\ exec[e].status \in {"suspended", "raised"}
    /\ ctx.cancelled
    /\ ctx' = [Unwound(ctx, exec[e].frames, 0) EXCEPT !.cancelled = FALSE]
    /\ Discarded(e)
    /\ UNCHANGED <<running, slice>>

\* Fault: resume does not look at the flag.
ResumeUnchecked(e) ==
    /\ running = None /\ exec[e].status = "suspended"
    /\ exec' = [exec EXCEPT ![e].status = "running"]
    /\ ctx' = IF exec[e].counted THEN [ctx EXCEPT !.steps = 1] ELSE ctx
    /\ running' = e /\ slice' = 0
    /\ UNCHANGED doomed

\* Fault: the statement that waited is not counted in its slice.
ResumeUncounted(e) ==
    /\ running = None /\ ~ ctx.cancelled /\ exec[e].status = "suspended"
    /\ exec' = [exec EXCEPT ![e].status = "running"]
    /\ ctx' = IF exec[e].counted THEN [ctx EXCEPT !.steps = 0] ELSE ctx
    /\ running' = e /\ slice' = 0
    /\ UNCHANGED doomed

\* resume() otherwise: the generator goes on after its yield.  One that raised
\* is exhausted.
Resume(e) ==
    /\ running = None /\ ~ ctx.cancelled
    /\ \/ /\ exec[e].status = "suspended"
          /\ exec' = [exec EXCEPT ![e].status = "running"]
          /\ ctx' = IF exec[e].counted THEN [ctx EXCEPT !.steps = 1] ELSE ctx
          /\ running' = e /\ slice' = 0
          /\ UNCHANGED doomed
       \/ /\ exec[e].status = "raised"
          /\ Discarded(e)
          /\ UNCHANGED <<ctx, running, slice>>

\* The host lets go of a suspended execution, as it does when the event fires
\* again; Python closes the generator.
Drop(e) == /\ running = None /\ exec[e].status \in {"suspended", "raised"}
           /\ ctx' = Unwound(ctx, exec[e].frames, 0)
           /\ Discarded(e)
           /\ UNCHANGED <<running, slice>>

Run(e) == \/ Act(e) \/ Timeout(e) \/ With(e) \/ Call(e) \/ While(e)
          \/ EndBlock(e) \/ LoopHead(e) \/ Break(e) \/ Return(e)
          \/ SyncSleep(e) \/ Sleep(e) \/ Preempt(e) \/ StepLimit(e) \/ Finish(e)

Next == /\ \E e \in Exec : \/ \E s \in ScriptsFor[budget] : Fire(e, s)
                           \/ Run(e) \/ ResumeCancelled(e) \/ Resume(e)
                           \/ Drop(e)
        /\ UNCHANGED budget

Spec == Init /\ [][Next]_vars

\* A run goes on by itself, and the host's scheduler resumes every execution
\* it keeps, however often other events get in between.
FairSpec == Spec /\ \A e \in Exec : /\ WF_vars(Run(e) /\ UNCHANGED budget)
                                    /\ SF_vars(/\ Resume(e) \/ ResumeCancelled(e)
                                               /\ UNCHANGED budget)

-----------------------------------------------------------------------------
\* Type invariant: one execution at a time is on the stack, frames stay with
\* executions that have started, and steps never passes the limit by two.
TypeOK ==
    /\ ctx.steps \in 0 .. MaxSteps + 1 /\ ctx.cancelled \in BOOLEAN
    /\ running \in Exec \cup {None}
    /\ \A e \in Exec : /\ exec[e].status = "running" <=> running = e
                       /\ exec[e].status = "suspended" => e \in Resumable
                       /\ exec[e].frames # <<>> => exec[e].status
                                                     \in {"running", "suspended"}
    /\ doomed \subseteq Resumable

\* "reassigning the NPC's timer erases any resumable sleep left pending by a
\* DIFFERENT, already-suspended execution": it never runs past its sleep.
CancelErases == running \notin doomed

\* Only such an assignment cancels: a script's own `timeout = x` before its
\* sleep does not, and neither does anything that happened earlier.
CancelOnlyDoomed ==
    [][\A e \in Exec : exec[e].status = "suspended" /\ ResumeCancelled(e)
                          => e \in doomed]_vars

\* The object a statement of e should see: that of its innermost with block,
\* or the one it was started with.
ThisOf(e) == LET k == Innermost(exec[e].frames, "with")
             IN  IF k = 0 THEN exec[e].base ELSE exec[e].frames[k].val

\* A run finds the with() source and the parameter of the function it is in
\* as it left them, whatever ran while it was suspended.
ScopeIntact ==
    running \in Exec =>
        /\ ctx.this = ThisOf(running)
        /\ LET k == Innermost(exec[running].frames, "call")
           IN  k > 0 => ctx.param = exec[running].frames[k].val

\* Once nothing runs and nothing is suspended, every binding is undone, also
\* after a cancel, a drop, a signal through several blocks or an error.
Unbound ==
    (\A e \in Exec : exec[e].status \in {"idle", "raised"}) =>
        ctx.this = Npc /\ ctx.param = None

\* The statement budget bounds what a resumable execution runs between two
\* points where the host has control.
SliceBounded == running \in Resumable /\ budget > 0 => slice <= budget

-----------------------------------------------------------------------------
(* What the invariants rest on.                                            *)

Value     == Nat \cup {Npc, None}
FrameType == [kind : {"while", "with", "call"}, val : Nat, saved : Value, end : Nat]
ExecType  == [status : {"idle", "running", "suspended", "raised"},
              script : Script \cup {None}, pc : Nat \ {0}, frames : Seq(FrameType),
              pending : {None, "sleep", "preempted"}, counted : BOOLEAN, base : Value]
CtxType   == [this : Value, param : Value, cancelled : BOOLEAN,
              steps : 0 .. MaxSteps + 1, event : Script \cup {None}]

\* The blocks of p that are open at i.
Open(p, i) == {j \in 1 .. Len(p) : IsBlock(p, j) /\ j < i /\ p[j].end >= i}

\* The frames fs are those of the blocks open at pc, from the outside in.
Fits(p, pc, fs) ==
    /\ \A i \in 1 .. Len(fs) : \E j \in Open(p, pc) :
          /\ fs[i].end = p[j].end /\ fs[i].kind = p[j].op
          /\ fs[i].kind = "while" => fs[i].saved = j + 1
    /\ \A j \in Open(p, pc) : \E i \in 1 .. Len(fs) : fs[i].end = p[j].end
    /\ \A i \in 1 .. Len(fs) : \A k \in i + 1 .. Len(fs) : fs[k].end < fs[i].end

Started(e) == exec[e].status \in {"running", "suspended"}

ExecInv ==
    /\ budget \in DOMAIN ScriptsFor /\ slice \in Nat /\ ctx \in CtxType
    /\ running \in Exec \cup {None} /\ exec \in [Exec -> ExecType]
    /\ doomed \subseteq Resumable
    /\ \A e \in Exec :
          /\ exec[e].status = "running" <=> running = e
          /\ exec[e].pending # None => e \in Resumable
          /\ exec[e].status \in {"suspended", "raised"} => exec[e].pending # None
          /\ exec[e].pending = "preempted" => budget > 0
          /\ IF Started(e) THEN /\ exec[e].script \in ScriptsFor[budget]
                               /\ Fits(Code(e), exec[e].pc, exec[e].frames)
             ELSE exec[e].frames = <<>>
          /\ exec[e].counted => ~ AtEnd(e) /\ Stmt(e).op # "end"

\* What the frames fs make of a field that was d before them, and that they
\* would restore it.
Bound(fs, kind, d) ==
    LET k == Innermost(fs, kind) IN IF k = 0 THEN d ELSE fs[k].val

Chained(fs, kind, d) ==
    \A i \in 1 .. Len(fs) : fs[i].kind = kind =>
        fs[i].saved = Bound(SubSeq(fs, 1, i - 1), kind, d)

\* What a suspended execution left a field at.
Left(kind, d) ==
    IF \E r \in Resumable : exec[r].status = "suspended"
    THEN Bound(exec[CHOOSE r \in Resumable : exec[r].status = "suspended"].frames,
               kind, d)
    ELSE d

\* Whatever runs finds what was left, and leaves it so; of one resumable
\* execution.
ScopeInv ==
    /\ \A r \in Resumable : exec[r].status = "suspended" =>
          /\ exec[r].base = Npc
          /\ Chained(exec[r].frames, "with", Npc) /\ Chained(exec[r].frames, "call", None)
    /\ running = None => ctx.this = Left("with", Npc) /\ ctx.param = Left("call", None)
    /\ running # None =>
          LET x == exec[running]
          IN  /\ x.base = Left("with", Npc)
              /\ Chained(x.frames, "with", Left("with", Npc))
              /\ Chained(x.frames, "call", Left("call", None))
              /\ ctx.this = Bound(x.frames, "with", Left("with", Npc))
              /\ ctx.param = Bound(x.frames, "call", Left("call", None))

\* What is doomed is still asleep, and will learn of it.
DoomInv == doomed # {} =>
    ctx.cancelled /\ \A e \in doomed : exec[e].status = "suspended"

\* What is suspended under a flag that is set is doomed.
FlagInv == ctx.cancelled =>
    \A e \in Exec : exec[e].status = "suspended" => e \in doomed

\* The counter has counted every statement of the slice, and at first the one
\* that waited for it.
SliceInv ==
    (running \in Resumable /\ budget > 0) =>
        /\ IF exec[running].counted THEN slice = 0 /\ ctx.steps = 1
                                    ELSE slice <= ctx.steps
        /\ slice <= budget

\* Every suspended execution ends: resumed to its end, cancelled, or dropped.
Finishes == \A e \in Resumable :
    exec[e].status = "suspended" ~> exec[e].status = "idle"
=============================================================================
