------------------------------- MODULE Texts -------------------------------
(***************************************************************************)
(* The operations of Rust's str and of its integer parsing that sshflow's  *)
(* two little languages are read with: destinations (crates/core) and      *)
(* durations (crates/config).  A text is a sequence of characters, each of *)
(* them a string of length one.                                            *)
(***************************************************************************)
EXTENDS Integers, Sequences

None == -1                       \* Option::None, where Some holds a natural

DigitValue == [d \in {"0", "1", "2", "3", "4", "5", "6", "7", "8", "9"} |->
                 CHOOSE n \in 0..9 :
                   <<"0", "1", "2", "3", "4", "5", "6", "7", "8", "9">>[n + 1] = d]
Digits == DOMAIN DigitValue      \* char::is_ascii_digit

AllDigits(t) == \A i \in DOMAIN t : t[i] \in Digits

Starts(t, c) == t # <<>> /\ t[1] = c
Has(t, c) == \E i \in DOMAIN t : t[i] = c

Before(t, i) == SubSeq(t, 1, i - 1)
After(t, i) == SubSeq(t, i + 1, Len(t))

(* Where str::split_once and str::rsplit_once split a text that has c.      *)
First(t, c) == CHOOSE i \in DOMAIN t : t[i] = c /\ ~Has(Before(t, i), c)
Last(t, c) == CHOOSE i \in DOMAIN t : t[i] = c /\ ~Has(After(t, i), c)

(* The number a text of digits denotes; 0 for the empty one.                *)
Value(t) ==
  LET v[i \in 0..Len(t)] ==
        IF i = 0 THEN 0 ELSE 10 * v[i - 1] + DigitValue[t[i]]
  IN  v[Len(t)]

(* str::parse of an unsigned integer type whose largest value is max: the   *)
(* set of its results, empty when it is refused.  One leading "+" is read   *)
(* over, as Rust does; a sign alone or no digit at all is refused.          *)
ParseUnsigned(t, max) ==
  LET digits == IF Starts(t, "+") THEN After(t, 1) ELSE t
  IN  {n \in {IF digits # <<>> /\ AllDigits(digits) THEN Value(digits) ELSE None} :
         n \in 0..max}

(* str::trim, for the one white-space character texts are made of.          *)
Trimmed(t) ==
  LET ink == {i \in DOMAIN t : t[i] # " "}
  IN  IF ink = {} THEN <<>>
      ELSE SubSeq(t, CHOOSE i \in ink : \A j \in ink : i <= j,
                     CHOOSE i \in ink : \A j \in ink : j <= i)
=============================================================================
