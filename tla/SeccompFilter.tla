----------------------------- MODULE SeccompFilter -----------------------------
(* The compiler of seccompiler/src/backend: the rules of a filter become a    *)
(* BPF program whose conditional jumps are at most 255 long.  The kernel that *)
(* runs the program on every system call is external.                         *)
EXTENDS Integers, Sequences

CONSTANTS
  HalfBits,    \* bits of half an argument: 32
  MaxJump,     \* longest conditional jump: u8::MAX
  MaxProgram,  \* BPF_MAX_LEN
  Args,        \* places of the arguments: 0 to ARG_NUMBER_MAX
  Filters,     \* system calls in the order of the BTreeMap, with the rules of each
  Calls        \* system calls as the kernel sees them

VARIABLES
  filter, program,
  call, pc, acc,   \* the system call and the machine that decides on it
  verdict

filterVars == <<filter, program, call, pc, acc, verdict>>

Bits == 0 .. 2 * HalfBits

Pow2[n \in Bits] == IF n = 0 THEN 1 ELSE 2 * Pow2[n - 1]

Half == Pow2[HalfBits]
Value == 0 .. Half * Half - 1

(* The value on which two words of n bits agree: x & y. *)
And[n \in Bits] ==
  [x \in Nat |-> [y \in Nat |->
     IF n = 0 THEN 0 ELSE 2 * And[n - 1][x \div 2][y \div 2] + (x % 2) * (y % 2)]]

Operators == {"eq", "ne", "ge", "gt", "le", "lt", "masked"}
Condition == [op : Operators, arg : Args, len : {"dword", "qword"}, value : Value, mask : Value]
Rule == Seq(Condition) \ {<<>>}

(* A jump is long enough for a condition; SeccompRule::new refuses a rule     *)
(* without conditions, and a system call has its rules in one place.          *)
ASSUME FilterAssumption ==
  /\ HalfBits \in Nat
  /\ MaxJump \in Nat /\ 6 < MaxJump
  /\ MaxProgram \in Nat
  /\ \A f \in Filters :
       /\ f \in Seq([nr : Nat, rules : Seq(Rule)])
       /\ \A i, j \in DOMAIN f : i < j => f[i].nr < f[j].nr
  /\ Calls \subseteq [arch : STRING, nr : Nat, args : [Args -> Value]]

--------------------------------------------------------------------------------
Ld(of, n) == [op |-> "ld", k |-> [of |-> of, arg |-> n], jt |-> 0, jf |-> 0]
AndMask(mask) == [op |-> "and", k |-> mask, jt |-> 0, jf |-> 0]
Ja(n) == [op |-> "ja", k |-> n, jt |-> 0, jf |-> 0]
Ret(action) == [op |-> "ret", k |-> action, jt |-> 0, jf |-> 0]
Jump(op, k, jt, jf) == [op |-> op, k |-> k, jt |-> jt, jf |-> jf]

(* into_*_bpf: the most significant half, unless the argument is a Dword, and *)
(* then the least significant one; offset leads out of the rule.              *)
MsbBpf(c, msb, offset) ==
  CASE c.op = "eq" -> <<Jump("jeq", msb, 0, offset + 2)>>
    [] c.op = "ne" -> <<Jump("jeq", msb, 0, 2)>>
    [] c.op \in {"ge", "gt"} -> <<Jump("jgt", msb, 3, 0), Jump("jeq", msb, 0, offset + 2)>>
    [] c.op \in {"le", "lt"} -> <<Jump("jgt", msb, offset + 3, 0), Jump("jeq", msb, 0, 2)>>
    [] OTHER -> <<AndMask(c.mask \div Half), Jump("jeq", msb, 0, offset + 3)>>

LsbBpf(c, lsb, offset) ==
  CASE c.op = "eq" -> <<Jump("jeq", lsb, 0, offset)>>
    [] c.op = "ne" -> <<Jump("jeq", lsb, offset, 0)>>
    [] c.op = "ge" -> <<Jump("jge", lsb, 0, offset)>>
    [] c.op = "gt" -> <<Jump("jgt", lsb, 0, offset)>>
    [] c.op = "le" -> <<Jump("jgt", lsb, offset, 0)>>
    [] c.op = "lt" -> <<Jump("jge", lsb, offset, 0)>>
    [] OTHER -> <<AndMask(c.mask % Half), Jump("jeq", lsb, 0, offset)>>

ConditionBpf(c, offset) ==
  LET value == IF c.op = "masked" THEN And[2 * HalfBits][c.value][c.mask] ELSE c.value
      upper == <<Ld("msb", c.arg)>> \o MsbBpf(c, value \div Half, offset)
      lower == <<Ld("lsb", c.arg)>> \o LsbBpf(c, value % Half, offset)
  IN IF c.len = "qword" THEN upper \o lower ELSE lower

ConditionMaxLen == 6

(* Mutant: the way out of the whole chain lands one instruction early. *)
HelperJumps_Early(offset) == <<Ja(2), Ja(offset + 1), Ja(offset)>>

(* On to the next condition, out of the rule, out of the chain. *)
HelperJumps(offset) == <<Ja(2), Ja(offset + 1), Ja(offset + 1)>>

(* append_condition: the rule is built backwards; when its end is out of the  *)
(* reach of a jump, the condition jumps to a helper instead.                  *)
AppendCondition(built, c) ==
  LET far == built.offset + ConditionMaxLen + 1 > MaxJump
      rest == IF far THEN HelperJumps(built.offset) \o built.bpf ELSE built.bpf
      offset == IF far THEN 1 ELSE built.offset
      code == ConditionBpf(c, offset)
  IN [bpf |-> code \o rest, offset |-> offset + Len(code)]

(* The rule after each of its conditions. *)
Built(rule) ==
  LET b[i \in 0 .. Len(rule)] ==
        IF i = 0 THEN [bpf |-> <<>>, offset |-> 1] ELSE AppendCondition(b[i - 1], rule[i])
  IN b

RuleBpf(rule) ==
  LET built == Built(rule)[Len(rule)]
  IN <<Ja(1), Ja(built.offset + 1)>> \o built.bpf

(* append_syscall_chain: the first rules of a system call, and all of them.   *)
RulesBpf(rules) ==
  LET bpf[i \in 0 .. Len(rules)] ==
        IF i = 0 THEN <<>> ELSE bpf[i - 1] \o RuleBpf(rules[i]) \o <<Ret("match")>>
  IN bpf

ChainBpf(s) ==
  <<Jump("jeq", s.nr, 0, 1)>>
  \o (IF s.rules = <<>> THEN <<Ja(1), Ja(2), Ret("match")>>
      ELSE RulesBpf(s.rules)[Len(s.rules)])
  \o <<Ret("mismatch")>>

(* TryFrom<SeccompFilter>: the chains in their order, the first of them and   *)
(* all of them.                                                               *)
ChainsBpf(f) ==
  LET bpf[i \in 0 .. Len(f)] == IF i = 0 THEN <<>> ELSE bpf[i - 1] \o ChainBpf(f[i])
  IN bpf

Compiled(f) ==
  <<Ld("arch", 0), Jump("jeq", "target", 1, 0), Ret("kill")>>
  \o (IF f = <<>> THEN <<>> ELSE <<Ld("nr", 0)>> \o ChainsBpf(f)[Len(f)])
  \o <<Ret("mismatch")>>

--------------------------------------------------------------------------------
(* The machine in the kernel, as BPF is used here. *)

FilterInit ==
  /\ filter \in Filters
  /\ program = Compiled(filter)
  /\ Len(program) < MaxProgram
  /\ call \in Calls
  /\ pc = 1 /\ acc = 0 /\ verdict = "none"

Field(c, k) ==
  CASE k.of = "msb" -> c.args[k.arg] \div Half
    [] k.of = "lsb" -> c.args[k.arg] % Half
    [] k.of = "nr" -> c.nr
    [] OTHER -> c.arch

Taken(i, a) ==
  CASE i.op = "jeq" -> a = i.k
    [] i.op = "jgt" -> a > i.k
    [] OTHER -> a >= i.k

AccAfter(c, i, a) ==
  CASE i.op = "ld" -> Field(c, i.k)
    [] i.op = "and" -> And[HalfBits][a][i.k]
    [] OTHER -> a

Skipped(i, a) ==
  CASE i.op = "ja" -> i.k
    [] i.op \in {"ld", "and", "ret"} -> 0
    [] OTHER -> IF Taken(i, a) THEN i.jt ELSE i.jf

Execute ==
  LET i == program[pc]
  IN /\ verdict = "none"
     /\ acc' = AccAfter(call, i, acc)
     /\ pc' = pc + 1 + Skipped(i, acc)
     /\ verdict' = IF i.op = "ret" THEN i.k ELSE "none"
     /\ UNCHANGED <<filter, program, call>>

NextCall(c) ==
  /\ verdict # "none"
  /\ call' = c
  /\ pc' = 1 /\ acc' = 0 /\ verdict' = "none"
  /\ UNCHANGED <<filter, program>>

FilterNext == Execute \/ \E c \in Calls : NextCall(c)

FilterSpec == FilterInit /\ [][FilterNext]_filterVars

--------------------------------------------------------------------------------
(* What a condition means. *)
Meets(s, c) ==
  LET size == IF c.len = "dword" THEN Half ELSE Half * Half
      x == s.args[c.arg] % size
      y == c.value % size
  IN CASE c.op = "eq" -> x = y
       [] c.op = "ne" -> x # y
       [] c.op = "ge" -> x >= y
       [] c.op = "gt" -> x > y
       [] c.op = "le" -> x <= y
       [] c.op = "lt" -> x < y
       [] OTHER -> And[2 * HalfBits][x][c.mask] = And[2 * HalfBits][y][c.mask]

(* What the rules say: a system call matches when one of its rules, or no     *)
(* rule at all, is met.                                                       *)
MeetsRule(s, rule) == \A i \in DOMAIN rule : Meets(s, rule[i])
Matches(s, chain) ==
  /\ s.nr = chain.nr
  /\ chain.rules = <<>> \/ \E i \in DOMAIN chain.rules : MeetsRule(s, chain.rules[i])
Decision(f, s) ==
  IF s.arch # "target" THEN "kill"
  ELSE IF \E i \in DOMAIN f : Matches(s, f[i]) THEN "match" ELSE "mismatch"

(* The program decides as the rules say, however long a rule is and however   *)
(* its jumps are laid out; none of them is longer than a u8 or leaves the     *)
(* program.                                                                   *)
FilterExact ==
  /\ pc <= Len(program) + 1
  /\ \A i \in DOMAIN program : program[i].jt <= MaxJump /\ program[i].jf <= MaxJump
  /\ verdict # "none" => verdict = Decision(filter, call)
================================================================================
