------------------------------ MODULE Bytecode ------------------------------
(***************************************************************************)
(* How bytecode is walked (cby/rewrite.c, cby/disasm.c, cby/interpreter/). *)
(*                                                                         *)
(* A module's code is a sequence of functions, each a header of            *)
(* CBY_FNHEADER bytes and instructions of different lengths.  Before the   *)
(* module runs the rewriter overwrites every opcode with the offset the    *)
(* direct dispatch jumps to; the interpreter trusts that each address it   *)
(* arrives at, by falling through, branching, calling, returning or        *)
(* resuming after a yield, is such an opcode.  The address of a            *)
(* continuation is that of its enter, which is never executed.             *)
(*                                                                         *)
(* The programs are those the compiler emits around one instruction:       *)
(* a function that calls another one, and the instruction in the           *)
(* continuation of the call.  Registers hold no values.                    *)
(***************************************************************************)
EXTENDS Operands, Sequences, SequencesExt

CONSTANTS Count,  \* how many groups an instruction may have
          Values  \* how many values ret may return

VARIABLES
  code,    \* address |-> instruction or function header
  mode,    \* who walks: "disasm", "rewrite", "run", "left" to the runtime,
           \* or "astray": behind operands taken from the code of the caller
  ip,      \* the instruction pointer
  end,     \* end of the function that is walked, the function that runs
  poked,   \* addresses of overwritten opcodes
  frames,  \* continuation frames of the interpreter: function and address
  pending  \* the closure the runtime will apply next, or None

vars == <<code, mode, ip, end, poked, frames, pending>>

FnHeader == 16
OpBytes == 2
None == 0

Total(ws) == FoldLeft(LAMBDA n, w : n + w, 0, ws)
FixedBytes(layout) == Total(layout.fixed)
Length(layout, n) == FixedBytes(layout) + IF layout.count = {} THEN 0 ELSE n * Total(layout.each)

-----------------------------------------------------------------------------
(* The programs.  Operands that name code name the index of an             *)
(* instruction; Emit turns it into an address.                             *)
I(op, n, to) == [op |-> op, n |-> n, to |-> to]

(* The function called is the second; instructions jump over the mov1.     *)
Callee == 10
Program(op, n, ret, v) ==
  << I("header", 0, 0), I("clos0", 0, 0), I("cont", 0, 5), I("kapp1", 0, Callee),
     I("enter", 0, 0), I("limit", 0, 0),
     I(op, n, IF op \in {"cont", "contl"} THEN 5 ELSE IF op \in {"kapp", "kapp1", "kapp2",
              "kapp3", "kapp4", "kapp5"} THEN Callee ELSE 9),
     I("mov1", 0, 0), I("ret1", 0, 0),
     I("header", 0, 0), I("clos1", 0, 0), I(ret, v, 0) >>

Bytes(i) == IF i.op = "header" THEN FnHeader
            ELSE OpBytes + Length(EncodedOperands[i.op], i.n)
Address(p, k) == Total([j \in 1 .. k - 1 |-> Bytes(p[j])])
CodeEnd(p) == Address(p, Len(p) + 1)
FnSize(p, k) == LET heads == {j \in k + 1 .. Len(p) : p[j].op = "header"}
                IN  (IF heads = {} THEN CodeEnd(p) ELSE Address(p, Min(heads))) - Address(p, k + 1)

Emit(p) ==
  LET index == [a \in {Address(p, k) : k \in DOMAIN p} |->
                  CHOOSE k \in DOMAIN p : Address(p, k) = a]
      to(i) == IF i.to = 0 THEN 0
               ELSE Address(p, i.to) + IF p[i.to].op = "header" THEN FnHeader ELSE 0
  IN  [a \in DOMAIN index |->
         LET i == p[index[a]]
         IN  IF i.op = "header" THEN [i EXCEPT !.n = FnSize(p, index[a])]
             ELSE [i EXCEPT !.to = to(i)]]

(* The first and the last byte of the code.                                *)
Bottom == 0
Top == LET last == Max(DOMAIN code) IN last + Bytes(code[last])

Init ==
  /\ \E op \in Opcode \ {"enter", "limit"}, n \in Count \cup {0}, ret \in {"ret1", "ret"}, v \in Values :
       /\ n # 0 => EncodedOperands[op].count # {}
       /\ op \in {"case", "casetbl"} => n # 0
       /\ op = "ret" => n = v
       /\ code = Emit(Program(op, n, ret, v))
  /\ mode \in {"disasm", "rewrite"}
  /\ ip = Bottom
  /\ end = Bottom
  /\ poked = {}
  /\ frames = <<>>
  /\ pending = None

At(a) == a \in DOMAIN code /\ code[a].op # "header"
Instr == code[ip]
Here(ops) == mode = "run" /\ At(ip) /\ Instr.op \in ops

-----------------------------------------------------------------------------
(* The functions are walked one after the other (cbyDisasm,                *)
(* cbyDirectDispatchRewrite).                                              *)
WalkHeader ==
  /\ mode \in {"disasm", "rewrite"} /\ ip = end /\ ip < Top
  /\ code[ip].op = "header"
  /\ ip' = ip + FnHeader
  /\ end' = ip + FnHeader + code[ip].n
  /\ UNCHANGED <<code, mode, poked, frames, pending>>

DisasmInsn ==
  /\ mode = "disasm" /\ ip < end /\ At(ip)
  /\ ip' = ip + OpBytes + Length(DisasmOperands[Instr.op], Instr.n)
  /\ UNCHANGED <<code, mode, end, poked, frames, pending>>

RewriteInsn_fixed ==
  /\ mode = "rewrite" /\ ip < end /\ At(ip)
  /\ poked' = poked \cup {ip}
  /\ ip' = ip + OpBytes + FixedBytes(RewriteOperands[Instr.op])
  /\ UNCHANGED <<code, mode, end, frames, pending>>

RewriteInsn ==
  /\ mode = "rewrite" /\ ip < end /\ At(ip)
  /\ poked' = poked \cup {ip}
  /\ ip' = ip + OpBytes + Length(RewriteOperands[Instr.op], Instr.n)
  /\ UNCHANGED <<code, mode, end, frames, pending>>

(* The disassembler leaves the code alone; the rewritten module starts.    *)
WalkEnd ==
  /\ ip = end /\ ip = Top
  /\ \/ mode = "disasm" /\ mode' = "rewrite" /\ ip' = Bottom /\ end' = Bottom
     \/ mode = "rewrite" /\ mode' = "run" /\ ip' = FnHeader /\ end' = FnHeader
  /\ UNCHANGED <<code, poked, frames, pending>>

-----------------------------------------------------------------------------
(* The interpreter.  From here on end is the function that runs (CURRFN).  *)
Branches == {"if", "ifl", "ifeq", "ifeql", "jmp", "jmpl"}
Tables == {"casetbl", "case"}
Conts == {"cont", "contl"}
Returns == {"ret1", "ret2", "ret3", "ret4"}
KnownApps == {"kapp", "kapp1", "kapp2", "kapp3", "kapp4", "kapp5"}
Apps == {"app", "app1", "app2", "app3", "app4", "app5"}
Closures == {"clos0", "clos1", "clos2", "clos3", "clos4", "clos"}
Foreign == {"ffitail", "ffiprot"}
Control == Branches \cup Tables \cup Conts \cup Returns \cup KnownApps \cup Apps \cup Closures
             \cup Foreign \cup {"enter", "limit", "ret", "lazyForce"}

(* Where the operands of the instruction end, for the interpreter and as   *)
(* they were emitted; a jump is relative to the latter.                    *)
Fetched == ip + OpBytes + FixedBytes(InterpOperands[Instr.op])
Behind == ip + OpBytes + Length(InterpOperands[Instr.op], Instr.n)
Offset(base) == Instr.to - (ip + OpBytes + base)

Continue(a) == ip' = a /\ UNCHANGED <<code, mode, end, poked, frames, pending>>
Leave(closure) ==
  /\ mode' = "left"
  /\ pending' = closure
  /\ UNCHANGED <<code, ip, end, poked>>
Jump(fn) == ip' = fn /\ end' = fn /\ UNCHANGED <<code, mode, poked, frames, pending>>

(* OP_END: to the next instruction.                                        *)
Step == Here(Opcode \ Control) /\ Continue(Behind)

Branch ==
  /\ Here(Branches)
  /\ \/ Continue(Fetched + Offset(FixedBytes(EncodedOperands[Instr.op])))
     \/ Instr.op \notin {"jmp", "jmpl"} /\ Continue(Fetched)

(* OP_case: binary search among the values 2, 4, .. 2 * n of the           *)
(* alternatives for x; the index of the alternative, or 0.                 *)
Search_up(n, x) ==
  LET Probe[first \in 0 .. n - 1, last \in 0 .. n - 1] ==
        LET mid == first + (last - first) \div 2
            t == 2 * (mid + 1)
        IN  IF x < t /\ first < mid THEN Probe[first, mid]
            ELSE IF x > t /\ mid < last /\ mid > first THEN Probe[mid, last]
            ELSE IF x = t THEN mid + 1 ELSE 0
  IN  Probe[0, n - 1]

Search(n, x) ==
  LET Probe[first \in 0 .. n - 1, last \in 0 .. n - 1] ==
        LET mid == first + (last - first) \div 2
            t == 2 * (mid + 1)
        IN  IF x < t /\ first < mid THEN Probe[first, mid - 1]
            ELSE IF x > t /\ mid < last THEN Probe[mid + 1, last]
            ELSE IF x = t THEN mid + 1 ELSE 0
  IN  Probe[0, n - 1]

(* OP_casetbl, OP_case: the targets are relative to the table.             *)
Select ==
  /\ Here(Tables)
  /\ \E x \in 0 .. 2 * Instr.n + 1 :
       LET hit == IF Instr.op = "case" THEN Search(Instr.n, x) # 0 ELSE x \in 1 .. Instr.n
       IN  Continue(IF hit THEN Fetched + Offset(FixedBytes(EncodedOperands[Instr.op])) ELSE Behind)

(* OP_cont: SAVE_CONT(IP + off).                                           *)
Cont ==
  /\ Here(Conts)
  /\ frames' = Append(frames, [fn |-> end, ip |-> Fetched + Offset(FixedBytes(EncodedOperands[Instr.op]))])
  /\ ip' = Fetched
  /\ UNCHANGED <<code, mode, end, poked, pending>>

(* FETCH_ENTER: behind the enter of the frame, which is not looked at.     *)
Frame == Last(frames)
EnterBytes == 3
FetchEnter(read) ==
  /\ mode' = IF read = 0 THEN "run" ELSE "astray"
  /\ ip' = Frame.ip + EnterBytes + read
  /\ end' = Frame.fn
  /\ frames' = Front(frames)
  /\ pending' = None
  /\ UNCHANGED <<code, poked>>

(* OP_ret1 .. OP_ret4: into a continuation of the interpreter, or out.     *)
ReturnValues == IF frames # <<>> THEN FetchEnter(0) ELSE Leave(None) /\ UNCHANGED frames
Return == Here(Returns) /\ ReturnValues

(* OP_ret: FETCH_ENTER comes first, also when the frame is not one of the  *)
(* interpreter, and the operands are fetched from where it leads.  What is *)
(* executed behind them is anything; it is not followed.  (The values read *)
(* from a frame that is not the interpreter's are left out.)               *)
ReturnMany ==
  /\ Here({"ret"})
  /\ IF frames # <<>> THEN FetchEnter(2 * Instr.n) ELSE Leave(None) /\ UNCHANGED frames

Apply == Here(KnownApps) /\ Jump(Instr.to)

(* The other function: a closure of it is applied.                         *)
Other == Max({a \in DOMAIN code : code[a].op = "header"}) + FnHeader

(* OP_app, OP_lazyForce: the interpreter's own functions are entered       *)
(* at once, everything else is left to the runtime.                        *)
App ==
  /\ Here(Apps)
  /\ Jump(Other) \/ (Leave(Other) /\ UNCHANGED frames)
LazyForce ==
  /\ Here({"lazyForce"})
  /\ ReturnValues \/ Jump(Other) \/ (Leave(Other) /\ UNCHANGED frames)

(* Broken: the enter is forgotten when the continuation is saved again.    *)
Limit_short ==
  /\ Here({"limit"})
  /\ \/ Continue(Behind)
     \/ /\ frames' = Append(frames, [fn |-> end, ip |-> Fetched - 5])
        /\ Leave(None)

(* OP_limit: IP -= 5 + 3 finds the enter in front, the continuation is     *)
(* saved again and the thread yields.                                      *)
Limit ==
  /\ Here({"limit"})
  /\ \/ Continue(Behind)
     \/ /\ frames' = Append(frames, [fn |-> end, ip |-> Fetched - (5 + 3)])
        /\ Leave(None)

(* OP_clos0 .. OP_clos: the closure is saved and the thread yields.        *)
Clos ==
  /\ Here(Closures)
  /\ Continue(Behind) \/ (Leave(end) /\ UNCHANGED frames)

(* OP_ffitail, OP_ffiprot                                                  *)
Call == Here(Foreign) /\ Leave(None) /\ UNCHANGED frames

(* The runtime applies the closure (interpFn, interpThunk), or returns to  *)
(* the frame (interpCont).                                                 *)
Resume ==
  /\ mode = "left"
  /\ IF pending # None
     THEN mode' = "run" /\ ip' = pending /\ end' = pending /\ pending' = None
          /\ UNCHANGED <<code, poked, frames>>
     ELSE frames # <<>> /\ FetchEnter(0)

Next ==
  \/ WalkHeader \/ DisasmInsn \/ RewriteInsn \/ WalkEnd
  \/ Step \/ Branch \/ Select \/ Cont \/ Return \/ ReturnMany \/ Apply \/ App \/ LazyForce
  \/ Limit \/ Clos \/ Call \/ Resume

Spec == Init /\ [][Next]_vars

-----------------------------------------------------------------------------
(* Every reader of the code stays on its instructions: the disassembler    *)
(* and the rewriter meet each function's end exactly, the rewriter         *)
(* overwrites nothing but opcodes, and the interpreter only ever arrives   *)
(* at a rewritten opcode, which is never an enter, until a `ret` with      *)
(* values has led it astray.                                               *)
OnInstructions ==
  /\ mode \in {"disasm", "rewrite"} => /\ ip <= end
                                       /\ ip < end => At(ip)
                                       /\ ip = end /\ ip # Top => ip \in DOMAIN code /\ ~At(ip)
  /\ \A a \in poked : At(a)
  /\ mode = "run" => At(ip) /\ ip \in poked /\ Instr.op # "enter"

(* So this does not hold: `ret` reads its own operands (bytecode.adoc:60). *)
NeverAstray == mode # "astray"

(* A frame of the interpreter, also one that is saved again by a thread    *)
(* that yields, leads to an enter of its function.                         *)
FramesEnter ==
  \A k \in DOMAIN frames : At(frames[k].ip) /\ code[frames[k].ip].op = "enter"

(* The binary search of a case takes the alternative of the value, the     *)
(* default only if there is none.                                          *)
CaseFinds ==
  mode = "run" /\ At(ip) /\ Instr.op = "case" =>
    \A x \in 0 .. 2 * Instr.n + 1 :
      Search(Instr.n, x) = IF x % 2 = 0 /\ x \div 2 \in 1 .. Instr.n THEN x \div 2 ELSE 0

=============================================================================
