-------------------------------- MODULE Mpl ---------------------------------
(***************************************************************************)
(* Programs over the type sequences of yesod.old/yesod/mpl: one sequence,  *)
(* set or map goes through a number of operations, beside the plain value  *)
(* it stands for.  The items are integral constants <<rank, value>>: two   *)
(* of them may compare equal and still be different types.                 *)
(***************************************************************************)
EXTENDS MplAlgorithms, FiniteSets

CONSTANTS
  Tags,       \* subset of {"vector", "list", "package"}
  Numbers,    \* integral constants
  Keys,       \* keys of sets and maps
  MaxSize,    \* bound: items
  MaxSteps,   \* bound: operations in a row
  bits        \* the bitwise operators work on values below 2^bits

VARIABLES
  what,       \* "sequence", "set" or "map"
  obj, ref,   \* the modelled type, and what it stands for
  steps

mplVars == <<what, obj, ref, steps>>

(***************************************************************************)
(* The integral constants: <<rank, value>>, where rank is the              *)
(* integral_rank of the type.  A binary operation has the type of the      *)
(* operand with the larger rank; three or more operands associate to the   *)
(* left.  Values stay in the range of their type: an overflow does not     *)
(* compile.                                                                *)
(***************************************************************************)
largest_int(a, b) == IF a[1] >= b[1] THEN a[1] ELSE b[1]

Binary(a, b, value) == <<largest_int(a, b), value>>

\* op<T0, T1, Tn...> is op<op<T0, T1>, Tn...>.
Nary(op, args) == FoldLeft(LAMBDA a, b : op[a, b], args[1], Tail(args))

\* Division truncates toward zero.
Quotient(a, b) ==
  LET q == (IF a < 0 THEN -a ELSE a) \div (IF b < 0 THEN -b ELSE b)
  IN  IF (a < 0) = (b < 0) THEN q ELSE -q

increment(a) == <<a[1], a[2] + 1>>
decrement(a) == <<a[1], a[2] - 1>>
negate(a)    == <<a[1], -a[2]>>

plus(a, b)    == Binary(a, b, a[2] + b[2])
minus(a, b)   == Binary(a, b, a[2] - b[2])
times(a, b)   == Binary(a, b, a[2] * b[2])
divides(a, b) == Binary(a, b, Quotient(a[2], b[2]))
modulus(a, b) == Binary(a, b, a[2] - b[2] * Quotient(a[2], b[2]))

Bit(n, i) == (n \div 2 ^ i) % 2
Bitwise_(f, m, n) ==
  FoldLeft(LAMBDA sum, i : sum + 2 ^ (i - 1) * f[Bit(m, i - 1), Bit(n, i - 1)], 0,
           [i \in 1 .. bits |-> i])

bitand_(a, b) == Binary(a, b, Bitwise_([x, y \in {0, 1} |-> x * y], a[2], b[2]))
bitor_(a, b)  == Binary(a, b, Bitwise_([x, y \in {0, 1} |-> x + y - x * y], a[2], b[2]))
bitxor_(a, b) == Binary(a, b, Bitwise_([x, y \in {0, 1} |-> (x + y) % 2], a[2], b[2]))
shift_left(a, n)  == <<a[1], a[2] * 2 ^ n[2]>>
shift_right(a, n) == <<a[1], a[2] \div 2 ^ n[2]>>

less(a, b)          == a[2] < b[2]
equal_to(a, b)      == a[2] = b[2]
greater(a, b)       == a[2] > b[2]
less_equal(a, b)    == a[2] <= b[2]
greater_equal(a, b) == a[2] >= b[2]
not_equal_to(a, b)  == a[2] # b[2]

\* min<T0, Tn...> compares T0 with the min of the others.
min(args) == FoldRight(LAMBDA a, m : IF less(a, m) THEN a ELSE m,
                       SubSeq(args, 1, Len(args) - 1), args[Len(args)])
max(args) == FoldRight(LAMBDA a, m : IF less(a, m) THEN m ELSE a,
                       SubSeq(args, 1, Len(args) - 1), args[Len(args)])

\* fold_null_unit stops at the first null: the rest is not instantiated.
fold_null_unit(null, unit, args) ==
  FoldRight(LAMBDA a, rest : IF a = null THEN null ELSE rest, args, unit)
or_(args)  == fold_null_unit(TRUE, FALSE, args)
and_(args) == fold_null_unit(FALSE, TRUE, args)

is_even(a) == a[2] % 2 = 0

\* The pair of the last two numbers moves on n times.
fibonacci_c(n) ==
  LET step[i \in 0 .. n] ==
        IF i = 0 THEN <<<<>>, 0, 1>>
        ELSE LET p == step[i - 1]
             IN  <<Append(p[1], p[2] + p[3]), p[3], p[2] + p[3]>>
  IN  step[n][1]

(***************************************************************************)
(* The programs.                                                           *)
(***************************************************************************)
Init ==
  /\ steps = 0
  /\ \/ what = "sequence" /\ ref = <<>>
        /\ obj \in {x \in {vector(<<>>), list(<<>>), package(<<>>)} : x.tag \in Tags}
     \/ what = "set" /\ obj = <<>> /\ ref = {}
     \/ what = "map" /\ obj = <<>> /\ ref = [k \in Keys |-> Void]

\* One operation on a sequence or chain, and its effect on the plain value.
Step(kind, value, plain) ==
  /\ what = kind /\ steps < MaxSteps
  /\ obj' = value /\ ref' = plain
  /\ steps' = steps + 1 /\ UNCHANGED what

HasRoom == Len(ref) < MaxSize

Push(x) ==
  /\ what = "sequence" /\ HasRoom
  /\ \/ has_push_back(obj) /\ Step("sequence", push_back(obj, x), Append(ref, x))
     \/ Step("sequence", push_front(obj, x), <<x>> \o ref)
     \/ \E i \in 0 .. Len(ref) : Step("sequence", insert(obj, i, x), InsertAt(ref, i + 1, x))

Pop ==
  /\ what = "sequence" /\ ref # <<>>
  /\ \/ obj.tag = "vector" /\ Step("sequence", pop_back(obj), SubSeq(ref, 1, Len(ref) - 1))
     \/ Step("sequence", pop_front(obj), Tail(ref))
     \/ \E i \in 0 .. Len(ref) - 1 : \E j \in i .. Len(ref) :
          Step("sequence", erase(obj, i, j), SubSeq(ref, 1, i) \o SubSeq(ref, j + 1, Len(ref)))

Constants == Nat \X Int
Less == {p \in Numbers \X Numbers : less(p[1], p[2])}

Rearrange ==
  \/ Step("sequence", reverse(obj), Reverse(ref))
  \/ Step("sequence", reverse_sort(obj, Less), Reverse(SortSeq(ref, less)))

SetOp(k) ==
  \/ Step("set", set_insert(obj, k), ref \cup {k})
  \/ Step("set", set_erase_key(obj, k), ref \ {k})

\* A key is given a value when it has none.
MapOp(k) ==
  \/ \E x \in Numbers :
       what = "map" /\ ~map_has_key(obj, k) /\ Step("map", map_insert(obj, k, x), [ref EXCEPT ![k] = x])
  \/ what = "map" /\ Step("map", map_erase_key(obj, k), [ref EXCEPT ![k] = Void])

Next ==
  \/ \E x \in Numbers : Push(x)
  \/ Pop \/ (what = "sequence" /\ Rearrange)
  \/ \E k \in Keys : SetOp(k) \/ MapOp(k)

Spec == Init /\ [][Next]_mplVars

(***************************************************************************)
(* Properties.                                                             *)
(***************************************************************************)

\* However it was built, masked and pushed on, a sequence has the items of
\* the plain sequence, at the same places (vector's bounds and overloads).
SequenceSound ==
  what = "sequence" =>
    /\ Items(obj) = ref /\ size(obj) = Len(ref) /\ empty(obj) = (ref = <<>>)
    /\ ref # <<>> => front(obj) = ref[1]
    /\ ref # <<>> /\ obj.tag = "vector" => back(obj) = ref[Len(ref)]

\* Chains of items and masks know the keys and values of the plain set or
\* map, count them, and visit each of them (set_iter, map_iter).
ChainSound ==
  /\ what = "set" =>
       /\ {k \in Keys : set_has_key(obj, k)} = ref
       /\ ChainSize(obj) = Cardinality(ref)
       /\ {e[2] : e \in ToSet(set_iter(obj))} = ref
  /\ what = "map" =>
       /\ \A k \in Keys : map_at(obj, k) = ref[k]
       /\ ChainSize(obj) = Cardinality({k \in Keys : ref[k] # Void})
       /\ ToSet(map_iter(obj)) = {<<k, ref[k]>> : k \in {l \in Keys : ref[l] # Void}}
       /\ Len(map_iter(obj)) = ChainSize(obj)

Big == {x \in Numbers : x[2] > 1}
Same == {<<x, x>> : x \in Numbers}
Incremented == [x \in Numbers |-> increment(x)]
Plus  == [x, y \in Constants |-> plus(x, y)]
Minus == [x, y \in Constants |-> minus(x, y)]

\* Positions i < j of xs with the same item next to each other are merged.
Merged(xs) == LET keep == SelectSeq([i \in DOMAIN xs |-> i], LAMBDA i : i = 1 \/ xs[i] # xs[i - 1])
              IN  [i \in DOMAIN keep |-> xs[keep[i]]]

\* The copying algorithms give the same items whichever inserter the
\* sequence has, the reversed ones give them from the back, and partition
\* and sort are stable.
CopiesAgree(x) ==
  LET IsBig(y) == y \in Big
      IsSmall(y) == y \notin Big
  IN
  /\ Items(copy(obj)) = ref /\ Items(reverse_copy(obj)) = Reverse(ref)
  /\ Items(copy_if(obj, Big)) = SelectSeq(ref, IsBig)
  /\ Items(reverse_copy_if(obj, Big)) = Reverse(SelectSeq(ref, IsBig))
  /\ Items(remove_if(obj, Big)) = SelectSeq(ref, IsSmall)
  /\ Items(reverse_remove_if(obj, Big)) = Reverse(SelectSeq(ref, IsSmall))
  /\ Items(remove(obj, x)) = SelectSeq(ref, LAMBDA y : y # x)
  /\ Items(reverse_remove(obj, x)) = Reverse(SelectSeq(ref, LAMBDA y : y # x))
  /\ Items(transform1(obj, Incremented)) = transform_view(ref, Incremented)
  /\ Items(reverse_transform1(obj, Incremented)) = Reverse(transform_view(ref, Incremented))
  /\ Items(replace(obj, x, negate(x))) = [i \in DOMAIN ref |-> IF ref[i] = x THEN negate(x) ELSE ref[i]]
  /\ Items(reverse_replace(obj, x, negate(x))) = Reverse(Items(replace(obj, x, negate(x))))
  /\ Items(unique(obj, Same)) = Merged(ref)
  /\ Items(reverse_unique(obj, Same)) = Reverse(Merged(ref))
  /\ partition(obj, Big) = <<copy_if(obj, Big), remove_if(obj, Big)>>
  /\ reverse_partition(obj, Big) = <<reverse_copy_if(obj, Big), reverse_remove_if(obj, Big)>>
  /\ Items(insert_range(obj, 0, <<x, x>>)) = <<x, x>> \o ref
  /\ obj.tag = "vector" => Items(transform2(obj, ref, Minus)) = [i \in DOMAIN ref |-> <<ref[i][1], 0>>]
  /\ LET xs == Items(sort(obj, Less))
     IN  /\ \A i, j \in DOMAIN xs : i < j => ~less(xs[j], xs[i])
         /\ \A v \in {y[2] : y \in Numbers} :
              SelectSeq(xs, LAMBDA y : y[2] = v) = SelectSeq(ref, LAMBDA y : y[2] = v)

\* Searches, counts and bounds find what a search by hand finds.
SearchesAgree(x) ==
  LET hits == {i \in DOMAIN ref : ref[i] = x}
      sorted == sort(obj, Less)
      Below == {i \in DOMAIN ref : less(ref[i], x)}
      Above == {i \in DOMAIN ref : less(x, ref[i])}
  IN
  /\ contains(obj, x) = (hits # {}) /\ count(obj, x) = Cardinality(hits)
  /\ IF hits = {} THEN find(obj, x) = Len(ref) /\ index_of(obj, x) = Void
     ELSE find(obj, x) + 1 \in hits /\ index_of(obj, x) = find(obj, x)
          /\ \A i \in hits : find(obj, x) < i
  /\ lower_bound(sorted, x, Less) = Cardinality(Below)
  /\ upper_bound(sorted, x, Less) = Len(ref) - Cardinality(Above)
  /\ equal(obj, copy(obj)) /\ equal(obj, reverse(obj)) = (ref = Reverse(ref))
  /\ ~equal(obj, push_front(obj, x)) /\ ~equal(push_front(obj, x), obj)
  /\ distance(obj, find(obj, x), Len(ref)) = Len(ref) - find(obj, x)
  /\ ref # <<>> =>
       LET top == max_element(obj, Less)  low == min_element(obj, Less) IN
       /\ \A i \in DOMAIN ref : ~less(ref[top + 1], ref[i]) /\ (i <= top => less(ref[i], ref[top + 1]))
       /\ \A i \in DOMAIN ref : ~less(ref[i], ref[low + 1]) /\ (i > low + 1 => less(ref[low + 1], ref[i]))

\* Views walk what the eager algorithms build.
ViewsAgree ==
  /\ filter_view(ref, Big) = Items(copy_if(obj, Big))
  /\ joint_view(ref, ref) = ref \o ref
  /\ zip_view(<<ref, Reverse(ref)>>) = pair_view(ref, Reverse(ref))
  /\ package_range_c(Len(ref), 0) = Reverse(package_range_c(0, Len(ref)))
  /\ range_c(0, Len(ref)) = package_range_c(0, Len(ref))
  /\ LET f == fibonacci_c(Len(ref)) IN \A i \in 3 .. Len(ref) : f[i] = f[i - 1] + f[i - 2]

\* Operations on constants with more operands, and the identities between them.
NumbersAgree ==
  ref # <<>> =>
    LET a == ref[1]  b == ref[Len(ref)]
        Values == {ref[i][2] : i \in DOMAIN ref}
        Total(n, y) == n + y[2]
    IN
    /\ min(ref)[2] \in Values /\ max(ref)[2] \in Values
    /\ \A v \in Values : min(ref)[2] <= v /\ v <= max(ref)[2]
    /\ Nary(Minus, ref)[2] = 2 * a[2] - FoldLeft(Total, 0, ref)
    /\ Nary(Plus, ref)[1] = FoldLeft(LAMBDA n, y : IF y[1] > n THEN y[1] ELSE n, 0, ref)
    /\ plus(bitand_(a, b), bitor_(a, b)) = plus(a, b)
    /\ plus(bitxor_(a, b), bitand_(a, b)) = bitor_(a, b)
    /\ b[2] # 0 => plus(times(divides(negate(a), b), b), modulus(negate(a), b)) = <<largest_int(a, b), -a[2]>>
    /\ shift_right(shift_left(a, b), b) = a /\ increment(decrement(a)) = a
    /\ or_([i \in DOMAIN ref |-> is_even(ref[i])]) = (\E v \in Values : v % 2 = 0)
    /\ and_([i \in DOMAIN ref |-> greater(ref[i], a) \/ equal_to(ref[i], a)]) = greater_equal(min(ref), a)
    /\ less_equal(a, b) = ~greater(a, b) /\ not_equal_to(a, b) = ~equal_to(a, b)

\* Every algorithm and view of the library, on every sequence a program of
\* pushes, pops and rearrangements builds, against its plain meaning.
AlgorithmsAgree ==
  what = "sequence" =>
    /\ \A x \in Numbers : CopiesAgree(x) /\ SearchesAgree(x)
    /\ ViewsAgree /\ NumbersAgree
=============================================================================
