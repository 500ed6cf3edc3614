---------------------------- MODULE ConfigValues ----------------------------
(***************************************************************************)
(* The getters of remotecfg/store.go as pure operators: what Duration,     *)
(* Float and Bool make of the text of a value.  A text is abstracted to    *)
(* what strconv makes of it: an integer an int can hold, a NaN, another    *)
(* word ParseBool knows, or nothing usable.  "none" is a key that is       *)
(* missing or empty.                                                       *)
(*                                                                         *)
(* A time.Duration is an integer of fixed width in units of which a second *)
(* has Second, so the product in Duration wraps around.                    *)
(***************************************************************************)
EXTENDS Integers

CONSTANTS
  Second,   (* time.Second: 10^9 in the program                            *)
  Half      (* half the range of an int and of a Duration: 2^63            *)

MinTick == 5 * Second
MaxTick == 120 * Second
MaxAbove == 400

(* The bounds fit the width; a whole number of seconds need not.            *)
ASSUME WidthAssumption ==
  /\ Second \in Nat \ {0}
  /\ Half \in Nat
  /\ MaxTick < Half

Texts == [kind : {"none", "int", "nan", "true", "false", "garbage"},
          n : (-Half)..(Half - 1)]

None == [kind |-> "none", n |-> 0]

(* The value int64 arithmetic has for the integer x.                        *)
Wrap(x) == ((x + Half) % (2 * Half)) - Half

Clamp(x, min, max) == IF x < min THEN min ELSE IF x > max THEN max ELSE x

Positive(text) == text.kind = "int" /\ text.n > 0

(* A plausible slip: the floor is forgotten.                                *)
DurationNoFloor(text, def) ==
  IF ~Positive(text) THEN def
  ELSE IF Wrap(text.n * Second) > MaxTick THEN MaxTick ELSE Wrap(text.n * Second)

(* Store.Duration with the bounds MinTick and MaxTick that all callers give. *)
Duration(text, def) ==
  IF Positive(text) THEN Clamp(Wrap(text.n * Second), MinTick, MaxTick) ELSE def

(* Store.Float with its callers' bounds: a NaN fails both comparisons.      *)
Float(text, def) ==
  IF text.kind = "int" THEN [text EXCEPT !.n = Clamp(text.n, 0, MaxAbove)]
  ELSE IF text.kind = "nan" THEN text ELSE [kind |-> "int", n |-> def]

(* Store.Bool: strconv.ParseBool takes 0 and 1 as well as the words.        *)
IsBool(text) ==
  text.kind \in {"true", "false"} \/ (text.kind = "int" /\ text.n \in {0, 1})

(* Which texts each getter complains about.                                 *)
BadDuration(text) ==
  text.kind # "none" /\ (Positive(text) => Duration(text, 0) # Wrap(text.n * Second))
BadFloat(text) ==
  \/ text.kind \in {"true", "false", "garbage"}
  \/ text.kind = "int" /\ text.n \notin 0..MaxAbove
BadBool(text) == text.kind # "none" /\ ~IsBool(text)

(* The comparison of a speed or a power with a threshold.                   *)
Exceeds(x, above) == above.kind = "int" /\ x > above.n
=============================================================================
