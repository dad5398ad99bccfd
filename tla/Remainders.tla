----------------------------- MODULE Remainders ------------------------------
(***************************************************************************)
(* Lemmas about remainders, which the indices of the descriptor ring and of *)
(* the NVMe queues and the bytes of the USB counter are made of.            *)
(***************************************************************************)
EXTENDS Integers, TLAPS

\* A remainder lies below its divisor (the reductions of ring indices at lines
\* 603 and 687 of edu_pci.c).
LEMMA ModBound ==
  ASSUME NEW a \in Nat, NEW n \in Nat \ {0}
  PROVE  a % n \in 0 .. n - 1
BY SMT

\* A number below the divisor is its own remainder: the conversions to uint16_t
\* of edu_nvme.c, and an index that need not be wrapped.
LEMMA ModSmall ==
  ASSUME NEW n \in Nat, n > 0, NEW a \in 0 .. n - 1
  PROVE  a % n = a
BY SMT

\* Division with remainder: what the reductions below rest on.
LEMMA ModSplit ==
  ASSUME NEW a \in Int, NEW n \in Nat, n > 0
  PROVE  \E q \in Int : a = n * q + (a % n)
BY SMT

\* A multiple of the divisor plus a number below it leaves that number.
LEMMA ModOfSum ==
  ASSUME NEW n \in Nat, n > 0, NEW q \in Int, NEW r \in 0 .. n - 1
  PROVE  (n * q + r) % n = r
BY SMT

\* Its quotient is the multiple (the shifts of dev-edu.c, lines 107-110).
LEMMA DivOfSum ==
  ASSUME NEW n \in Nat, n > 0, NEW q \in Nat, NEW r \in 0 .. n - 1
  PROVE  (n * q + r) \div n = q
BY SMT

\* Numbers less than a divisor apart have different remainders: what lets a
\* queue's slots stand for a window of requests.
LEMMA ModDistinct ==
  ASSUME NEW a \in Int, NEW b \in Int, NEW n \in Nat, n > 0,
         a % n = b % n, a - b < n, b - a < n
  PROVE  a = b
<1>1. PICK q \in Int : a = n * q + (a % n)
  BY ModSplit
<1>2. PICK p \in Int : b = n * p + (b % n)
  BY ModSplit
<1>3. a - b = n * (q - p)
  BY <1>1, <1>2, SMT
<1>4. CASE q - p >= 1
  <2>1. n * (q - p) >= n
    BY <1>4, SMT
  <2> QED
    BY <2>1, <1>3, SMT
<1>5. CASE q - p <= -1
  <2>1. n * (q - p) <= -n
    BY <1>5, SMT
  <2> QED
    BY <2>1, <1>3, SMT
<1>6. CASE q = p
  BY <1>3, <1>6, SMT
<1> QED
  BY <1>4, <1>5, <1>6, SMT

\* Stepping an index modulo the size is reducing the next number (line 603; the
\* indices of tests/nvme/test_nvme.cpp, lines 253 and 264).
LEMMA ModNext ==
  ASSUME NEW a \in Int, NEW n \in Nat, n > 0
  PROVE  ((a % n) + 1) % n = (a + 1) % n
<1>1. PICK q \in Int : a = n * q + (a % n)
  BY ModSplit
<1> DEFINE r == a % n
<1>2. r \in 0 .. n - 1
  BY SMT
<1>3. a = n * q + r
  BY <1>1
<1> HIDE DEF r
<1>4. CASE r + 1 \in 0 .. n - 1
  <2>1. a + 1 = n * q + (r + 1)
    BY <1>2, <1>3, SMT
  <2>2. (a + 1) % n = r + 1
    BY <2>1, <1>4, ModOfSum
  <2>3. r + 1 = n * 0 + (r + 1)
    BY <1>2, SMT
  <2>4. (r + 1) % n = r + 1
    BY <2>3, <1>4, ModOfSum
  <2> QED
    BY <2>2, <2>4 DEF r
<1>5. CASE r + 1 = n
  <2>1. a + 1 = n * (q + 1) + 0
    BY <1>2, <1>3, <1>5, SMT
  <2>2. q + 1 \in Int /\ 0 \in 0 .. n - 1
    BY SMT
  <2>3. (a + 1) % n = 0
    BY <2>1, <2>2, ModOfSum
  <2>4. r + 1 = n * 1 + 0
    BY <1>5, SMT
  <2>5. (r + 1) % n = 0
    BY <2>2, <2>4, ModOfSum
  <2> QED
    BY <2>3, <2>5 DEF r
<1> QED
  BY <1>2, <1>4, <1>5, SMT
==============================================================================
