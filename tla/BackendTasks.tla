------------------------------ MODULE BackendTasks ----------------------------
(***************************************************************************)
(* The tasks a backend server of q1 executes                               *)
(* (q1/server/backend_server/tasks.go), and what they ought to compute.    *)
(***************************************************************************)
EXTENDS Integers, FiniteSetsExt

isPrime(n) == n >= 2 /\ \A i \in 2 .. n : i * i <= n => n % i # 0

(* The search has seen s[2] primes up to s[1].                             *)
nthPrime(n) ==
  LET Search[s \in Nat \X Nat] ==
        IF s[2] >= n THEN s[1]
        ELSE Search[<<s[1] + 1, IF isPrime(s[1] + 1) THEN s[2] + 1 ELSE s[2]>>]
  IN  IF n < 1 THEN -1 ELSE Search[<<1, 0>>]

fibonacci[n \in Int] == IF n <= 1 THEN n ELSE fibonacci[n - 1] + fibonacci[n - 2]

SumTo(n) == MapThenSumSet(LAMBDA i : i + 1, 0 .. n - 1)

(* Every type but 0 and 1 is answered with a Fibonacci number.             *)
executeTask(tasktype, n) ==
  CASE tasktype = 0 -> SumTo(n)
    [] tasktype = 1 -> nthPrime(n)
    [] OTHER -> fibonacci[n]
-------------------------------------------------------------------------------
(* What the answers should be: the sum of the first n numbers, the number  *)
(* with exactly n primes up to it, and the number of sets of natural       *)
(* numbers up to n - 2 without neighbours.                                 *)
Divisors(q) == {d \in 1 .. q : q % d = 0}
Primes(p) == {q \in 1 .. p : Cardinality(Divisors(q)) = 2}

IsAnswer(a, tasktype, n) ==
  CASE tasktype = 0 -> 2 * a = n * (n + 1)
    [] tasktype = 1 -> a \in Primes(a) /\ Cardinality(Primes(a)) = n
    [] OTHER -> a = Cardinality({S \in SUBSET (1 .. n - 2) : \A i \in S : i + 1 \notin S})
===============================================================================
