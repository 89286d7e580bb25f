----------------------------- MODULE GS2Operands -----------------------------
(***************************************************************************)
(* What GS2 instructions do to their operands (reborn_protocol/gs2/vm.py   *)
(* and values.py): one frame's operand stack, references that outlive the  *)
(* value they were made for, lists shared by reference, the scopes a bare  *)
(* name is looked up in, foreach and with blocks, and calls of the host.   *)
(*                                                                         *)
(* A script is any sequence of statements, laid out as the compiler does;  *)
(* a statement runs in one step.  Frames, budget and errors are the        *)
(* business of GS2Machine.                                                 *)
(***************************************************************************)
EXTENDS Integers, Sequences, SequencesExt, FiniteSetsExt

CONSTANTS Unit,       \* the number 1.0, in units of SCRIPT_EPSILON
          MaxIndex,   \* MAX_ARRAY_INDEX
          MaxSize,    \* MAX_ARRAY_SIZE
          Object,     \* objects of the host, found under their names
          Target,     \* what the script's statements refer to: see Ref
          Literal,    \* the values it writes down
          Index,      \* the numbers it uses as an index
          Index2,     \* and as the last one of two
          Operator,   \* the operators it uses
          MaxLists, MaxCells, MaxNum, MaxBlocks, MaxStatements
                      \* bounds: lists, their cells, numbers, open blocks,
                      \* the script

ASSUME OperandAssumption ==
    /\ Unit \in Nat \ {0} /\ MaxIndex \in Nat /\ MaxSize \in Nat
    /\ Index \cup Index2 \subseteq Int

VARIABLES stack,      \* frame.stack
          store,      \* the members of each object; those of temps, this, globals
          lists,      \* the lists, by identity
          within,     \* frame.with_stack
          blocks,     \* the blocks the script is in, "foreach" or "with"
          statements  \* how many statements have run

vars == <<stack, store, lists, within, blocks, statements>>

\* Values, and the references of the operand stack.
Num(n)     == [k |-> "num", n |-> n]
Text(f, n) == [k |-> "str", folded |-> f, n |-> n]  \* its rank, and strtofloat
None       == [k |-> "none"]
Null       == [k |-> "null"]
Start      == [k |-> "start"]
List(i)    == [k |-> "list", id |-> i]
Obj(o)     == [k |-> "obj", o |-> o]
Var(x)     == [k |-> "var", name |-> x]
Slot(b, x) == [k |-> "slot", base |-> b, name |-> x]
Cell(l, i) == [k |-> "cell", id |-> l, i |-> i]

Truth(b)    == Num(IF b THEN Unit ELSE 0)
Denull(v)   == IF v = Null THEN None ELSE v
Compound(v) == v.k \in {"list", "obj"}
Held(s, v)  == s.lists[v.id]

\* gs2_to_num; array_index, which adds the tolerance; array_size.
ToNum(v)      == IF v.k \in {"num", "str"} THEN v.n ELSE 0
ArrayIndex(v) == (ToNum(v) + 1) \div Unit
ArraySize(v)  == Max({0, Min({ArrayIndex(v), MaxSize})})

-----------------------------------------------------------------------------
(* Names, references and the stack, over a machine state s.                *)

Has(s, o, x)    == x \in DOMAIN s.store[o]
Get(s, o, x)    == IF Has(s, o, x) THEN s.store[o][x] ELSE None
Set(s, o, x, v) == [s EXCEPT !.store[o] = (x :> v) @@ @]

\* _lookup
Lookup(s, x) ==
    LET chain == Reverse(s.within) \o <<"temp", "this", "globals">>
        owners == {i \in 1 .. Len(chain) : Has(s, chain[i], x)}
    IN  CASE owners # {}  -> Get(s, chain[Min(owners)], x)
          [] x \in Object -> Obj(x)
          [] OTHER        -> None

\* Fault: what the this-object claims is written to the globals.
AssignBare(s, x, v) ==
    LET claimed == {i \in 1 .. Len(s.within) : Has(s, s.within[i], x)}
    IN  CASE claimed # {}      -> Set(s, s.within[Max(claimed)], x, v)
          [] Has(s, "temp", x) -> Set(s, "temp", x, v)
          [] OTHER             -> Set(s, "globals", x, v)

\* _assign_name: "Mirror _lookup's resolution order".
AssignName(s, x, v) ==
    LET claimed == {i \in 1 .. Len(s.within) : Has(s, s.within[i], x)}
    IN  CASE claimed # {}      -> Set(s, s.within[Max(claimed)], x, v)
          [] Has(s, "temp", x) -> Set(s, "temp", x, v)
          [] Has(s, "this", x) -> Set(s, "this", x, v)
          [] OTHER             -> Set(s, "globals", x, v)

InRange(s, l, i) == i \in 0 .. Len(s.lists[l]) - 1

\* deref, with LValue.get and ElemRef.get
Deref(s, v) ==
    CASE v.k = "var"  -> Lookup(s, v.name)
      [] v.k = "slot" -> IF v.base.k = "obj" THEN Get(s, v.base.o, v.name) ELSE None
      [] v.k = "cell" -> IF InRange(s, v.id, v.i) THEN s.lists[v.id][v.i + 1] ELSE None
      [] OTHER        -> v

\* LValue.set and ElemRef.set
SetRef(s, ref, v) ==
    CASE ref.k = "slot" /\ ref.base.k = "obj"         -> Set(s, ref.base.o, ref.name, v)
      [] ref.k = "cell" /\ InRange(s, ref.id, ref.i) -> [s EXCEPT !.lists[ref.id][ref.i + 1] = v]
      [] OTHER                                       -> s

WriteRef(s, ref, v) == IF ref.k = "var" THEN AssignName(s, ref.name, Denull(v))
                                        ELSE SetRef(s, ref, Denull(v))

Push(s, v) == [s EXCEPT !.stack = Append(@, v)]
Drop(s, n) == [s EXCEPT !.stack = SubSeq(@, 1, Len(@) - n)]

\* The n-th entry from the top, or what it stands for, or the value a handler
\* takes in its place.
Raw(s, n, default) == IF n <= Len(s.stack) THEN s.stack[Len(s.stack) - n + 1] ELSE default
Arg(s, n, default) == Deref(s, Raw(s, n, default))

\* _pop_args: down to the marker, the last pushed first.
Marker(s)  == Max({0} \cup {i \in 1 .. Len(s.stack) : s.stack[i] = Start})
Args(s)    == LET entries == Reverse(SubSeq(s.stack, Marker(s) + 1, Len(s.stack)))
              IN  [i \in 1 .. Len(entries) |-> Denull(entries[i])]
DropArgs(s) == [s EXCEPT !.stack = SubSeq(@, 1, Marker(s) - 1)]

\* The lists that can be reached from values: Small bounds the nesting.
ReachFrom(s, values) ==
    LET Ids(vs) == {v.id : v \in {w \in vs : w.k \in {"list", "cell"}}}
                   \cup {v.base.id : v \in {w \in vs : w.k = "slot" /\ w.base.k = "list"}}
        More(ids) == ids \cup UNION {Ids(ToSet(s.lists[l])) : l \in ids}
    IN  More(More(Ids(values)))

Reachable(s) == ReachFrom(s, ToSet(s.stack)
                             \cup UNION {{s.store[o][x] : x \in DOMAIN s.store[o]} :
                                            o \in DOMAIN s.store})
Unused(s)    == 1 .. MaxLists \ Reachable(s)

\* A new list is pushed; t is s without the handler's operands.
PushList(s, t, cells) == LET l == Min(Unused(s))
                         IN  Push([t EXCEPT !.lists[l] = cells], List(l))

Zeros(n)        == [i \in 1 .. n |-> Num(0)]
Padded(q, n)    == q \o Zeros(Max({0, n - Len(q)}))

-----------------------------------------------------------------------------
(* gs2_compare                                                             *)

\* _numcmp, with its tolerance of one unit
NumCmp(a, b) == IF b > a + 1 THEN -1 ELSE IF a > b + 1 THEN 1 ELSE 0
Order(a, b)  == IF a < b THEN -1 ELSE IF a > b THEN 1 ELSE 0

\* An address is larger than any number of a script; objects have a name that
\* comes behind every text, lists the empty one.
Address(v)  == IF v.k = "list" THEN 1000 + v.id ELSE 2000
Folded(v)   == IF v.k = "list" THEN 0 ELSE 100

RECURSIVE Compare(_, _, _)
Compare(s, a, b) ==
    CASE a.k = "list" /\ b.k = "list" ->
           LET p == Held(s, a)
               q == Held(s, b)
               differ == {i \in 1 .. Min({Len(p), Len(q)}) : Compare(s, p[i], q[i]) # 0}
           IN  IF Len(p) # Len(q) THEN Order(Len(p), Len(q))
               ELSE IF differ = {} THEN 0
               ELSE Compare(s, p[Min(differ)], q[Min(differ)])
      [] Compound(a) /\ Compound(b) /\ {a.k, b.k} # {"list"} -> Order(Address(a), Address(b))
      [] Compound(a) /\ b.k = "str"                  -> Order(Folded(a), b.folded)
      [] Compound(b) /\ a.k = "str"                  -> Order(a.folded, Folded(b))
      [] Compound(a) /\ ~ Compound(b) /\ b.k # "str" -> NumCmp(Address(a), ToNum(b))
      [] Compound(b) /\ ~ Compound(a) /\ a.k # "str" -> NumCmp(ToNum(a), Address(b))
      [] a.k = "str" /\ b.k = "str"                  -> Order(a.folded, b.folded)
      [] OTHER                                       -> NumCmp(ToNum(a), ToNum(b))

Eq(s, a, b) == Compare(s, a, b) = 0

\* Where a list has an equal of v, counted from 0, or -1.
IndexOf(s, q, v) == LET at == {i \in 1 .. Len(q) : Eq(s, q[i], v)}
                    IN  IF at = {} THEN -1 ELSE Min(at) - 1

-----------------------------------------------------------------------------
(* The handlers, as functions of the machine state.                        *)

\* OP_THIS, with _current_this
This(s) == Push(s, Obj(IF s.within = <<>> THEN "this" ELSE Last(s.within)))

MemberAccess(s) ==
    LET entry == Raw(s, 2, None)
        base  == Deref(s, entry)
    IN  Push(Drop(s, 2), Slot(IF Compound(base) THEN base ELSE None, Raw(s, 1, None).name))

ConvToFloat(s) == LET v == Arg(s, 1, None)
                  IN  Push(Drop(s, 1), IF Compound(v) THEN v ELSE Num(ToNum(v)))

\* A reference to something else than a list or an object stays a reference.
ConvToObject(s) == LET v == Arg(s, 1, None)
                   IN  Push(Drop(s, 1), IF Compound(v) THEN v ELSE Raw(s, 1, None))

CopyLastOp(s)  == IF s.stack = <<>> THEN s ELSE Push(s, Last(s.stack))
SwapLastOps(s) == IF Len(s.stack) < 2 THEN s
                  ELSE Push(Push(Drop(s, 2), Raw(s, 1, None)), Raw(s, 2, None))

ArrayEnd(s) == LET args == Args(s)
               IN  PushList(s, DropArgs(s), [i \in 1 .. Len(args) |-> Deref(s, args[i])])

ArrayNew(s) == PushList(s, Drop(s, 1), Zeros(ArraySize(Arg(s, 1, Num(0)))))

\* A new list with the same cells, cut or filled.
SetArray(s) ==
    LET size == ArraySize(Arg(s, 1, Num(0)))
        cur  == Arg(s, 2, None)
        arr  == IF cur.k = "list" THEN Held(s, cur) ELSE <<>>
        l    == Min(Unused(s))
    IN  WriteRef([Drop(s, 2) EXCEPT !.lists[l] = SubSeq(Padded(arr, size), 1, size)],
                 Raw(s, 2, None), List(l))

Assign(s) == WriteRef(Drop(s, 2), Raw(s, 2, None), Arg(s, 1, None))

\* Fault: only names and members are written, elements are read.
AddedToCopy(s, n) ==
    LET target == Raw(s, 1, None)
        v      == Num(ToNum(Deref(s, target)) + n)
    IN  IF target.k \in {"var", "slot"}
        THEN Push(WriteRef(Drop(s, 1), target, v), target)
        ELSE Drop(s, 1)

\* OP_INC and OP_DEC
Added(s, n) ==
    LET target == Raw(s, 1, None)
        v      == Num(ToNum(Deref(s, target)) + n)
    IN  IF target.k \in {"var", "slot", "cell"}
        THEN Push(WriteRef(Drop(s, 1), target, v), target)
        ELSE Push(Drop(s, 1), v)

Add(s) == Push(Drop(s, 2), Num(ToNum(Arg(s, 2, Num(0))) + ToNum(Arg(s, 1, Num(0)))))

Relation(op, c) == CASE op = "EQ"  -> c = 0  [] op = "NEQ" -> c # 0
                     [] op = "LT"  -> c < 0  [] op = "GT"  -> c > 0
                     [] op = "LTE" -> c <= 0 [] op = "GTE" -> c >= 0

Related(s, op) == Push(Drop(s, 2), Truth(Relation(op, Compare(s, Arg(s, 2, None), Arg(s, 1, None)))))

Minimum(s) == LET a == Arg(s, 2, None)
                  b == Arg(s, 1, None)
              IN  Push(Drop(s, 2), IF Compare(s, a, b) > 0 THEN b ELSE a)
Maximum(s) == LET a == Arg(s, 2, None)
                  b == Arg(s, 1, None)
              IN  Push(Drop(s, 2), IF Compare(s, a, b) < 0 THEN b ELSE a)

InObj(s) == LET obj == Arg(s, 1, None)
            IN  Push(Drop(s, 2),
                     Truth(obj.k = "list" /\ IndexOf(s, Held(s, obj), Arg(s, 2, None)) # -1))

\* OP_ARRAY: a reference, no copy.
ArrayCell(s) ==
    LET arr == Arg(s, 2, None)
        i   == ArrayIndex(Arg(s, 1, Num(0)))
    IN  Push(Drop(s, 2), CASE arr.k = "list" /\ InRange(s, arr.id, i) -> Cell(arr.id, i)
                           [] arr.k = "str"                           -> Num(0)
                           [] OTHER                                   -> None)

\* arr[i] = v, after zeros up to there
Stored(s, l, i, v) == [s EXCEPT !.lists[l] = [Padded(@, i + 1) EXCEPT ![i + 1] = v]]

\* Fault: no limit.
WithinBoundNever(i) == i >= 0

\* "cap on any single array allocation/index-driven growth"
WithinBound(i) == i \in 0 .. MaxIndex

ArrayAssign(s) ==
    LET v      == Arg(s, 1, None)
        i      == ArrayIndex(Arg(s, 2, Num(0)))
        target == Raw(s, 3, None)
        arr    == Deref(s, target)
        t      == Drop(s, 3)
        l      == Min(Unused(s))
    IN  CASE arr.k = "list" -> IF WithinBound(i) THEN Stored(t, arr.id, i, v) ELSE t
          [] arr = None /\ target.k \in {"var", "slot", "cell"} ->
               LET u == [t EXCEPT !.lists[l] = <<>>]
               IN  WriteRef(IF WithinBound(i) THEN Stored(u, l, i, v) ELSE u, target, List(l))
          [] OTHER -> t

\* Two indices: the row is read, and written without a limit.
RowOf(s, n) == LET arr == Arg(s, n, None)
                   i   == ArrayIndex(Arg(s, n - 1, Num(0)))
               IN  IF arr.k = "list" /\ InRange(s, arr.id, i) THEN Held(s, arr)[i + 1] ELSE None

ArrayMultidim(s) ==
    LET row == RowOf(s, 3)
        j   == ArrayIndex(Arg(s, 1, Num(0)))
    IN  Push(Drop(s, 3), IF row.k = "list" /\ InRange(s, row.id, j) THEN Held(s, row)[j + 1] ELSE None)

ArrayMultidimAssign(s) ==
    LET row == RowOf(s, 4)
        j   == ArrayIndex(Arg(s, 2, Num(0)))
    IN  IF row.k = "list" /\ j >= 0 THEN Stored(Drop(s, 4), row.id, j, Arg(s, 1, None)) ELSE Drop(s, 4)

\* s[start : start + length], or all the rest
Slice(q, start, length) ==
    SubSeq(q, start + 1, IF length < 0 THEN Len(q) ELSE Min({Len(q), start + length}))

SubArray(s) ==
    LET arr    == Arg(s, 1, None)
        start  == Max({0, ArrayIndex(Arg(s, 2, Num(0)))})
        length == ArrayIndex(Arg(s, 3, Num(-Unit)))
    IN  PushList(s, Drop(s, 3), IF arr.k = "list" THEN Slice(Held(s, arr), start, length) ELSE <<>>)

AddString(s) ==
    LET v      == Arg(s, 1, None)
        target == Raw(s, 2, None)
        arr    == Deref(s, target)
        l      == Min(Unused(s))
    IN  CASE arr.k = "list" -> [Drop(s, 2) EXCEPT !.lists[arr.id] = Append(@, v)]
          [] arr = None /\ target.k \in {"var", "slot", "cell"} ->
               WriteRef([Drop(s, 2) EXCEPT !.lists[l] = <<v>>], target, List(l))
          [] OTHER -> Drop(s, 2)

DeleteString(s) ==
    LET arr == Arg(s, 2, None)
        i   == ArrayIndex(Arg(s, 1, Num(0)))
    IN  IF arr.k = "list" /\ InRange(s, arr.id, i)
        THEN [Drop(s, 2) EXCEPT !.lists[arr.id] = RemoveAt(@, i + 1)] ELSE Drop(s, 2)

RemoveString(s) ==
    LET arr == Arg(s, 2, None)
        i   == IF arr.k = "list" THEN IndexOf(s, Held(s, arr), Arg(s, 1, None)) ELSE -1
    IN  IF i >= 0 THEN [Drop(s, 2) EXCEPT !.lists[arr.id] = RemoveAt(@, i + 1)] ELSE Drop(s, 2)

ReplaceString(s) ==
    LET arr == Arg(s, 3, None)
        i   == ArrayIndex(Arg(s, 1, Num(0)))
    IN  IF arr.k = "list" /\ WithinBound(i)
        THEN Stored(Drop(s, 3), arr.id, i, Arg(s, 2, None)) ELSE Drop(s, 3)

InsertString(s) ==
    LET arr == Arg(s, 3, None)
        i   == ArrayIndex(Arg(s, 1, Num(0)))
    IN  IF arr.k = "list" /\ i >= 0
        THEN [Drop(s, 3) EXCEPT !.lists[arr.id] =
                 InsertAt(@, Min({i, Len(@)}) + 1, Arg(s, 2, None))]
        ELSE Drop(s, 3)

Clear(s) == LET v == Arg(s, 1, None)
            IN  CASE v.k = "list" -> [Drop(s, 1) EXCEPT !.lists[v.id] = <<>>]
                  [] v.k = "obj"  -> [Drop(s, 1) EXCEPT !.store[v.o] = <<>>]
                  [] OTHER        -> Drop(s, 1)

ObjIndex(s) == LET arr == Arg(s, 2, None)
               IN  Push(Drop(s, 2), Num(Unit * IF arr.k = "list"
                                               THEN IndexOf(s, Held(s, arr), Arg(s, 1, None)) ELSE -1))

ObjSize(s) == LET v == Arg(s, 1, None)
              IN  Push(Drop(s, 1), Num(Unit * CASE v.k = "list" -> Len(Held(s, v))
                                                [] v.k = "obj"  -> Cardinality(DOMAIN s.store[v.o])
                                                [] OTHER        -> 0))

ObjLink(s) == LET v == Arg(s, 1, None)
              IN  Push(Drop(s, 1), IF Compound(v) THEN v ELSE Null)

\* Fault: the cells are taken as they are.
CopyShallow(s, q) == [s |-> s, q |-> q]

\* copy_value of the cells q: a list in a cell is cloned.
CopyValue(s, q) ==
    LET nested == SetToSortSeq({i \in 1 .. Len(q) : q[i].k = "list"}, <)
        unused == SetToSortSeq(Unused(s), <)
        Nth(i) == CHOOSE n \in 1 .. Len(nested) : nested[n] = i
        clone  == [i \in ToSet(nested) |-> unused[Nth(i)]]
    IN  [s |-> [s EXCEPT !.lists = [l \in 1 .. MaxLists |->
                   IF \E i \in DOMAIN clone : clone[i] = l
                   THEN @[q[CHOOSE i \in DOMAIN clone : clone[i] = l].id] ELSE @[l]]],
         q |-> [i \in 1 .. Len(q) |-> IF i \in DOMAIN clone THEN List(clone[i]) ELSE q[i]]]

\* _list_method: add, addarray, copyfrom; the others do as the instructions.
ListMethod(s, l, name, arg) ==
    LET copy == CopyValue(s, IF arg.k = "list" THEN Held(s, arg) ELSE <<>>)
    IN  CASE name = "add"      -> [s EXCEPT !.lists[l] = Append(@, arg)]
          [] name = "addarray" -> [s EXCEPT !.lists[l] =
                                      IF arg.k = "list" THEN @ \o Held(s, arg) ELSE @]
          [] name = "copyfrom" -> [copy.s EXCEPT !.lists[l] = copy.q]

\* What OP_CALL passes on, below the target.
CallArgs(s) == LET popped == Args(Drop(s, 1))
               IN  [i \in 1 .. Len(popped) |-> Deref(s, popped[i])]

\* OP_CALL, with _call_target: the host is asked first, and knows f.
Call(s) ==
    LET target == Raw(s, 1, None)
        arg    == IF CallArgs(s) = <<>> THEN None ELSE Head(CallArgs(s))
        method == target.k = "slot" /\ target.base.k = "list" /\ target.name # "f"
        t      == IF method THEN ListMethod(s, target.base.id, target.name, arg) ELSE s
    IN  Push(DropArgs(Drop(t, 1)), IF method THEN None ELSE Num(0))

\* OP_FUNC_PARAMS_END: the names, against what the caller gave.
FuncParamsEnd(s, args) ==
    LET names == Args(s)
        Given(i) == IF i <= Len(args) THEN args[i] ELSE None
        Bind(t, i) == IF names[i].k = "slot" THEN SetRef(t, names[i], Given(i))
                                             ELSE Set(t, "temp", names[i].name, Given(i))
    IN  FoldLeftDomain(Bind, DropArgs(s), names)

\* OP_FOREACH finds a name, a list and an index.
Items(s)    == LET v == Arg(s, 2, None) IN IF v.k = "list" THEN Held(s, v) ELSE <<>>
ForeachAt(s) == ToNum(Arg(s, 1, None)) \div Unit
Iterates(s) == Len(s.stack) >= 3 /\ ForeachAt(s) < Len(Items(s))

Foreach(s) ==
    IF Iterates(s)
    THEN LET t == WriteRef(Drop(s, 3), Raw(s, 3, None), Items(s)[ForeachAt(s) + 1])
         IN  Push(Push(Push(t, Raw(s, 3, None)), Raw(s, 2, None)), Num(Unit * ForeachAt(s)))
    ELSE IF Len(s.stack) >= 3 THEN Drop(s, 2) ELSE s

\* _dispatch
Apply(s, instr) ==
    LET op == instr.op IN
    CASE op = "PUSH" -> Push(s, instr.v)  [] op = "THIS" -> This(s)
      [] op = "TEMP" -> Push(s, Obj("temp")) [] op = "MEMBER_ACCESS" -> MemberAccess(s)
      [] op = "COPY_LAST_OP" -> CopyLastOp(s) [] op = "SWAP_LAST_OPS" -> SwapLastOps(s)
      [] op = "INDEX_DEC" -> Drop(s, Min({1, Len(s.stack)}))
      [] op = "CONV_TO_FLOAT" -> ConvToFloat(s) [] op = "CONV_TO_OBJECT" -> ConvToObject(s)
      [] op = "ARRAY_END" -> ArrayEnd(s) [] op = "ARRAY_NEW" -> ArrayNew(s)
      [] op = "SETARRAY" -> SetArray(s) [] op = "ASSIGN" -> Assign(s)
      [] op = "INC" -> Added(s, Unit) [] op = "DEC" -> Added(s, -Unit) [] op = "ADD" -> Add(s)
      [] op \in {"EQ", "NEQ", "LT", "GT", "LTE", "GTE"} -> Related(s, op)
      [] op = "MIN" -> Minimum(s) [] op = "MAX" -> Maximum(s) [] op = "IN_OBJ" -> InObj(s)
      [] op = "ARRAY" -> ArrayCell(s) [] op = "ARRAY_ASSIGN" -> ArrayAssign(s)
      [] op = "ARRAY_MULTIDIM" -> ArrayMultidim(s)
      [] op = "ARRAY_MULTIDIM_ASSIGN" -> ArrayMultidimAssign(s)
      [] op = "OBJ_SUBARRAY" -> SubArray(s) [] op = "OBJ_ADDSTRING" -> AddString(s)
      [] op = "OBJ_DELETESTRING" -> DeleteString(s) [] op = "OBJ_REMOVESTRING" -> RemoveString(s)
      [] op = "OBJ_REPLACESTRING" -> ReplaceString(s) [] op = "OBJ_INSERTSTRING" -> InsertString(s)
      [] op = "OBJ_CLEAR" -> Clear(s) [] op = "OBJ_INDEX" -> ObjIndex(s)
      [] op = "OBJ_SIZE" -> ObjSize(s) [] op = "OBJ_LINK" -> ObjLink(s)
      [] op = "CALL" -> Call(s) [] op = "FUNC_PARAMS_END" -> FuncParamsEnd(s, instr.v)
      [] op = "FOREACH" -> Foreach(s)

-----------------------------------------------------------------------------
(* How the compiler lays statements out.                                   *)

I(op)    == <<[op |-> op]>>
J(op, v) == <<[op |-> op, v |-> v]>>
PushNum(i) == J("PUSH", Num(i))

Name(r) == J("PUSH", Var(r.name))

\* x, temp.x or this.x; what it holds as an object; a cell of it.
RefCode(r) == CASE r.in = "bare" -> Name(r)
                [] r.in = "temp" -> I("TEMP") \o Name(r) \o I("MEMBER_ACCESS")
                [] r.in = "this" -> I("THIS") \o Name(r) \o I("MEMBER_ACCESS")
ObjCode(r)     == RefCode(r) \o I("CONV_TO_OBJECT")
CellCode(r, i) == ObjCode(r) \o PushNum(i) \o I("ARRAY")

\* Expressions: a literal, {literal}, a variable, a cell.
Expr == [e : {"literal", "list"}, v : Literal] \cup [e : {"ref"}, r : Target]
        \cup [e : {"cell"}, r : Target, i : Index]
Atom == {x \in Expr : x.e \in {"literal", "ref"}}

Code(x) == CASE x.e = "literal" -> J("PUSH", x.v)
             [] x.e = "list"    -> J("PUSH", Start) \o J("PUSH", x.v) \o I("ARRAY_END")
             [] x.e = "ref"     -> RefCode(x.r)
             [] x.e = "cell"    -> CellCode(x.r, x.i)

\* What statements of a script compile to.  r = x, r[i] = x, r[i, j] = x:
Let(r, x)            == RefCode(r) \o Code(x) \o I("ASSIGN")
LetCell(r, i, x)     == ObjCode(r) \o PushNum(i) \o Code(x) \o I("ARRAY_ASSIGN")
LetCell2(r, i, j, x) == ObjCode(r) \o PushNum(i) \o PushNum(j) \o Code(x)
                        \o I("ARRAY_MULTIDIM_ASSIGN")

\* r = new[i], setarray(r, i), r = r.subarray(0, i), r = r[i, j], r = x op r:
LetNew(r, i)      == RefCode(r) \o PushNum(i) \o I("ARRAY_NEW") \o I("ASSIGN")
Resize(r, i)      == RefCode(r) \o PushNum(i) \o I("SETARRAY")
LetSub(r, i)      == RefCode(r) \o PushNum(i) \o PushNum(0) \o RefCode(r) \o I("OBJ_SUBARRAY")
                     \o I("ASSIGN")
LetRead2(r, i, j) == RefCode(r) \o ObjCode(r) \o PushNum(i) \o PushNum(j)
                     \o I("ARRAY_MULTIDIM") \o I("ASSIGN")
LetComputed(r, x, op) == RefCode(r) \o Code(x) \o RefCode(r) \o I(op) \o I("ASSIGN")

\* r = r[i]++, the size of r, the index of x in it, its link:
LetOld(r, i)   == RefCode(r) \o CellCode(r, i) \o I("COPY_LAST_OP") \o I("CONV_TO_FLOAT")
                  \o I("SWAP_LAST_OPS") \o I("INC") \o I("INDEX_DEC") \o I("ASSIGN")
LetSize(r)     == RefCode(r) \o ObjCode(r) \o I("OBJ_SIZE") \o I("ASSIGN")
LetIndex(r, x) == RefCode(r) \o ObjCode(r) \o Code(x) \o I("OBJ_INDEX") \o I("ASSIGN")
LetLink(r)     == RefCode(r) \o ObjCode(r) \o I("OBJ_LINK") \o I("ASSIGN")

\* r[i]++ and r[i]--; r.add(x), r.insert(i, x), r.replace(i, x), r.delete(i),
\* r.remove(x), r.clear():
Bump(r, i, op)   == CellCode(r, i) \o I(op) \o I("INDEX_DEC")
AddTo(r, x)      == ObjCode(r) \o Code(x) \o I("OBJ_ADDSTRING")
Insert(r, i, x)  == ObjCode(r) \o Code(x) \o PushNum(i) \o I("OBJ_INSERTSTRING")
Replace(r, i, x) == ObjCode(r) \o Code(x) \o PushNum(i) \o I("OBJ_REPLACESTRING")
Delete(r, i)     == ObjCode(r) \o PushNum(i) \o I("OBJ_DELETESTRING")
RemoveAll(r, x)  == ObjCode(r) \o Code(x) \o I("OBJ_REMOVESTRING")
ClearAll(r)      == ObjCode(r) \o I("OBJ_CLEAR")

\* r.copyfrom(x) and the like; f(x).  The value is dropped.
Method(r, name, x) == J("PUSH", Start) \o Code(x) \o ObjCode(r) \o J("PUSH", Var(name))
                      \o I("MEMBER_ACCESS") \o I("CALL") \o I("INDEX_DEC")
HostArgs(x) == J("PUSH", Start) \o Code(x) \o J("PUSH", Var("f"))
CallHost(x) == HostArgs(x) \o I("CALL") \o I("INDEX_DEC")

Stores == {Let(r, x) : r \in Target, x \in Expr}
    \cup {LetCell(r, i, x) : r \in Target, i \in Index, x \in Expr}
    \cup {LetNew(r, i) : r \in Target, i \in Index} \cup {Resize(r, i) : r \in Target, i \in Index}

Reads == {LetSub(r, i) : r \in Target, i \in Index} \cup {LetOld(r, i) : r \in Target, i \in Index}
    \cup {LetRead2(r, i, j) : r \in Target, i \in Index, j \in Index2}
    \cup {LetComputed(r, x, op) : r \in Target, x \in Atom, op \in Operator}
    \cup {LetIndex(r, x) : r \in Target, x \in Atom}
    \cup {LetSize(r) : r \in Target} \cup {LetLink(r) : r \in Target}

Edits == {Insert(r, i, x) : r \in Target, i \in Index, x \in Atom}
    \cup {Replace(r, i, x) : r \in Target, i \in Index, x \in Atom}
    \cup {AddTo(r, x) : r \in Target, x \in Atom} \cup {RemoveAll(r, x) : r \in Target, x \in Atom}
    \cup {Delete(r, i) : r \in Target, i \in Index} \cup {ClearAll(r) : r \in Target}
    \cup {Bump(r, i, op) : r \in Target, i \in Index, op \in {"INC", "DEC"}}

Calls == {Method(r, name, x) : r \in Target, name \in {"add", "copyfrom"}, x \in Atom}
    \cup {CallHost(x) : x \in Expr}

\* The two that no cap holds back: r[i, j] = x and r.addarray(x).
Uncapped == {LetCell2(r, i, j, x) : r \in Target, i \in Index, j \in Index2, x \in Atom}
    \cup {Method(r, "addarray", x) : r \in Target, x \in Atom}

-----------------------------------------------------------------------------
(* Running them.                                                           *)

Running == statements < MaxStatements

Now == [stack |-> stack, store |-> store, lists |-> lists, within |-> within]

RECURSIVE Exec(_, _)
Exec(s, code) == IF code = <<>> THEN s ELSE Exec(Apply(s, Head(code)), Tail(code))

\* Bounds: numbers, the lists in use and their cells, of which each may need a
\* list more, and lists of lists of lists.
Small(s, used) ==
    /\ Cardinality(used) <= MaxLists - MaxCells
    /\ FoldSet(LAMBDA l, n : n + Len(s.lists[l]), 0, used) <= MaxCells
    /\ \A l \in used : \A v \in ToSet(s.lists[l]) :
          /\ v.k = "num" => v.n \in -1 .. MaxNum
          /\ v.k = "list" => \A w \in ToSet(s.lists[v.id]) : w.k # "list"

\* What nothing refers to any more is forgotten; the lists that are left are
\* numbered anew, for an identity has no meaning beyond being the same.
Become(s) ==
    LET reached   == Reachable(s)
        New(l)    == Cardinality({m \in reached : m <= l})
        Renamed(v) == CASE v.k \in {"list", "cell"}                -> [v EXCEPT !.id = New(@)]
                        [] v.k = "slot" /\ v.base.k = "list" -> [v EXCEPT !.base.id = New(@)]
                        [] OTHER                               -> v
        All(f)    == [i \in DOMAIN f |-> Renamed(f[i])]
    IN  /\ Small(s, reached)
        /\ statements' = statements + 1
        /\ stack' = All(s.stack) /\ within' = s.within
        /\ store' = [o \in DOMAIN s.store |-> All(s.store[o])]
        /\ lists' = [n \in 1 .. MaxLists |->
                        IF n <= Cardinality(reached)
                        THEN All(s.lists[CHOOSE l \in reached : New(l) = n]) ELSE <<>>]

\* One statement of the script.
Do(code) == Running /\ Become(Exec(Now, code)) /\ UNCHANGED blocks

Init == /\ stack = <<>> /\ within = <<>> /\ blocks = <<>> /\ statements = 0
        /\ store = [o \in Object \cup {"temp", "this", "globals"} |-> <<>>]
        /\ lists = [l \in 1 .. MaxLists |-> <<>>]

\* for (r : q): the loop's three entries stay on the stack.
Entered(s) == IF Iterates(s)
              THEN /\ Become(Foreach(s))
                   /\ blocks' = Append(blocks, "foreach")
              ELSE Become(Apply(Foreach(s), I("INDEX_DEC")[1])) /\ UNCHANGED blocks

ForeachBegin(r, q) ==
    /\ Running /\ Len(blocks) < MaxBlocks
    /\ Entered(Exec(Now, RefCode(r) \o ObjCode(q) \o PushNum(0)))

\* The end of its body: OP_INC, and back to the OP_FOREACH.
ForeachEnd ==
    /\ Running /\ blocks # <<>> /\ Last(blocks) = "foreach"
    /\ LET s == Apply(Now, I("INC")[1])
       IN  IF Iterates(s)
           THEN Become(Foreach(s)) /\ UNCHANGED blocks
           ELSE Become(Apply(Foreach(s), I("INDEX_DEC")[1])) /\ blocks' = Front(blocks)

\* with (o): a block whose target is no object is skipped.
WithBegin(o) ==
    /\ Running /\ Len(blocks) < MaxBlocks
    /\ LET s == Exec(Now, J("PUSH", Var(o)) \o I("CONV_TO_OBJECT"))
           v == Last(s.stack)
       IN  /\ v.k = "obj"
           /\ Become([Drop(s, 1) EXCEPT !.within = Append(@, v.o)])
    /\ blocks' = Append(blocks, "with")

WithEnd == /\ Running /\ blocks # <<>> /\ Last(blocks) = "with"
           /\ Become([Now EXCEPT !.within = IF @ = <<>> THEN @ ELSE Front(@)])
           /\ blocks' = Front(blocks)

\* The event returns, from wherever it is, and another one begins: a new
\* frame, whose parameter p is bound to what the host gave.
Event(r, v) ==
    LET s == [Now EXCEPT !.stack = <<>>, !.within = <<>>,
                           !.store["temp"] = <<>>]
    IN  /\ Running /\ Become(Exec(s, J("PUSH", Start) \o RefCode(r) \o J("FUNC_PARAMS_END", <<v>>)))
        /\ blocks' = <<>>

Next == \/ \E code \in Stores \cup Reads \cup Edits \cup Calls \cup Uncapped : Do(code)
        \/ \E r, q \in Target : ForeachBegin(r, q)
        \/ ForeachEnd \/ WithEnd
        \/ \E o \in Object : WithBegin(o)
        \/ \E r \in Target : Event(r, Num(0))

Spec == Init /\ [][Next]_vars

-----------------------------------------------------------------------------
Count(kind) == Cardinality({i \in 1 .. Len(blocks) : blocks[i] = kind})

\* Between two statements the stack holds the name, the list and the index of
\* each foreach the script is in, and nothing else; the with stack the objects
\* of its with blocks: no instruction eats another one's operands.
Balanced ==
    /\ Len(stack) = 3 * Count("foreach") /\ Len(within) = Count("with")
    /\ \A i \in 1 .. Count("foreach") :
          stack[3 * i - 2].k \in {"var", "slot"} /\ stack[3 * i].k = "num"

\* "cap on any single array allocation/index-driven growth": a statement makes
\* no list longer than the caps allow, but for one cell more than the longest
\* list had.  This says less than the comment: it leaves out r[i, j] = x, which
\* grows a row up to any index, and r.addarray(x), which may double a list; the
\* lists that grew beyond the caps in this way are among the states it is
\* checked in.
GrowthBounded == \A code \in Stores \cup Reads \cup Edits \cup Calls :
    LET s == Exec(Now, code)
    IN  \A l \in 1 .. MaxLists :
           Len(s.lists[l]) <= Max({MaxIndex + 1, MaxSize}
                                  \cup {Len(lists[m]) + 1 : m \in 1 .. MaxLists})

\* "Mirror _lookup's resolution order ... or a script's own read-after-write
\* comes back with the stale" value: whatever is written through a name reads
\* back through it, in every scope the script can be in.
NameReadsBack == \A r \in Target :
    LET ref == Last(Exec(Now, RefCode(r)).stack)
    IN  Deref(WriteRef(Now, ref, Num(Unit)), ref) = Num(Unit)

\* copyfrom: "cells CLONED".  A list and its copy share no list, unless they
\* were part of each other.
Cloned == \A l, m \in 1 .. MaxLists :
    (l # m /\ {List(l), List(m)} \cap ToSet(lists[l] \o lists[m]) = {})
       => LET s == ListMethod(Now, l, "copyfrom", List(m))
          IN  ReachFrom(s, {List(l)}) \cap ReachFrom(s, {List(m)}) = {}

\* "the instant it would be stored in a variable or handed to a host builtin
\* it becomes plain None".
NullStaysInside == \A x \in Expr : Null \notin ToSet(CallArgs(Exec(Now, HostArgs(x))))
=============================================================================
