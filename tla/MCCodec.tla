------------------------------ MODULE MCCodec ------------------------------
(* Every id of every table; structs in which one field at a time takes each  *)
(* boundary value of its kind, from a struct of zeros and from a full one.   *)
EXTENDS RosBridge

Values(f) ==
  CASE f.kind = "plain"  -> {0, 1, 200}
    [] f.kind = "flag"   -> {0, 1}
    [] f.kind = "masked" ->
         IF f.bits > 30 THEN {0, 255, Int32Max} ELSE {0, 2^f.bits - 1, 255}
    [] f.kind = "scaled" -> {0, 5, 6, 4 * (2^f.bits - 1) + 1, 4 * 2^f.bits}
    [] f.kind = "signed" ->
         {-6, 5, 131069, -131072, 131072}
         \cup (IF f.bits = 32 THEN {-4194306, 8388610, -536870911} ELSE {})
    [] f.kind = "ppm"    -> {NaN, -6, 5, 509, -508, 2000, -2000}
    [] f.kind = "ratio"  -> {0, 99, 12799, 65535}
    [] f.kind = "count"  -> {0, 1, f.arg, 255}
    [] f.kind = "hidden" -> {0}

Raws(f) ==
  CASE f.kind = "plain"  -> {0, 200}
    [] f.kind = "flag"   -> {0, 1}
    [] f.kind \in {"masked", "scaled", "ratio"} ->
         IF f.bits > 30 THEN {0, 1, Int32Max} ELSE {0, 1, 2^f.bits - 1}
    [] f.kind = "signed" ->
         {3, -32768}
         \cup (IF f.bits = 32 THEN {1048577, -8388609, 268435456} ELSE {})
    [] f.kind = "ppm"    -> {-128, -127, 127}
    [] f.kind = "count"  -> {0, 1, f.arg, 2^f.bits - 1}
    [] f.kind = "hidden" -> {0, 1}

\* The most the rounding can do, up or down.
MCError(x) == IF (x \div 2) % 2 = 0 THEN Slack(x) ELSE -Slack(x)

Least(f) == 0
Full(f) ==
  CASE f.kind \in {"plain", "flag", "hidden"} -> 1
    [] f.kind = "count" -> f.arg
    [] OTHER            -> 5

Uniform(s, V(_)) ==
  [head  |-> [i \in DOMAIN s.head |-> V(s.head[i])],
   items |-> [k \in 1 .. s.max |-> [i \in DOMAIN s.item |-> V(s.item[i])]]]

\* base, and base with one field of the head, the first or the last element
\* changed.
Varied(s, base, V(_)) ==
  {base}
  \cup UNION {{[base EXCEPT !.head[i] = v] : v \in V(s.head[i])} :
                i \in DOMAIN s.head}
  \cup UNION {{[base EXCEPT !.items[k][i] = v] :
                 v \in V(s.item[i]), k \in {1, s.max} \cap 1 .. s.max} :
                i \in DOMAIN s.item}

MCData(name) ==
  LET s == Layout[name]
  IN  Varied(s, Uniform(s, Least), Values) \cup Varied(s, Uniform(s, Full), Values)

MCReports(name) ==
  LET s == Layout[name]
  IN  Varied(s, Uniform(s, Least), Raws) \cup Varied(s, Uniform(s, Full), Raws)

\* As sent; nothing; cut in the head, in the middle and in the last byte; or
\* extended.
MCLengths(n) == {0, 9, n \div 2, n - 1, n, n + 1} \cap 0 .. 127
==============================================================================
