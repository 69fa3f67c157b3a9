----------------------------- MODULE MCVmmServices -----------------------------
EXTENDS VmmServices

Cond(o, n, l, v, m) == [op |-> o, arg |-> n, len |-> l, value |-> v, mask |-> m]
Ops == {"eq", "ne", "ge", "gt", "le", "lt"}
Single == {Cond(o, 1, l, v, 0) : o \in Ops, l \in {"dword", "qword"}, v \in {0, 3, 5, 10, 15}}
          \cup {Cond("masked", 1, l, v, m) : l \in {"dword", "qword"}, v \in {3, 6, 13}, m \in {0, 6, 9}}
ge == Cond("ge", 1, "qword", 2, 0)
lt == Cond("lt", 1, "qword", 12, 0)
ne == Cond("ne", 1, "dword", 1, 0)
ma == Cond("masked", 1, "qword", 5, 5)
ot == Cond("le", 2, "qword", 6, 0)
Long == {<<ge, lt, ne>>, <<ma, ot, lt>>, <<ne, ma>>, <<lt, lt, ot, ne, ma>>}
Chain(n, rules) == [nr |-> n, rules |-> rules]
MCFilters ==
  {<<Chain(1, <<<<c>>>>)>> : c \in Single}
  \cup {<<>>}
  \cup {<<Chain(1, a), Chain(2, b)>> :
          a \in {<<>>} \cup {<<r>> : r \in Long} \cup {<<r, s>> : r, s \in Long},
          b \in {<<>>} \cup {<<r>> : r \in Long}}
MCCalls ==
  {[arch |-> "target", nr |-> n, args |-> <<x, y>>] : n \in 1 .. 3, x \in 0 .. 15, y \in {6, 9}}
  \cup {[arch |-> "other", nr |-> 1, args |-> <<0, 0>>]}

MCLayouts == {<<2, 3>>, <<3, 2>>, <<4, 1>>, <<1, 1>>}
================================================================================
