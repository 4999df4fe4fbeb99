------------------------------- MODULE Scores -------------------------------
(***************************************************************************)
(* src/score/mod.rs: the findings of a page become a score for each        *)
(* category and one for the page, and the pages of a report one for the    *)
(* site.  A finding is what the scores see of it: its check, its category  *)
(* and its penalty.                                                        *)
(***************************************************************************)
EXTENDS Integers, Sequences, SequencesExt

(* Category::weight, in hundredths.                                        *)
Weight ==
    [Metadata |-> 20, Crawlability |-> 20, Structure |-> 15, Links |-> 15,
     Security |-> 15, Media |-> 10, SocialTags |-> 5]

Category == DOMAIN Weight

finding(check, category, penalty) ==
    [check |-> check, category |-> category, penalty |-> penalty]

Finding == [check : STRING, category : Category, penalty : Nat]

Total(numbers) == FoldLeft(+, 0, numbers)

Clamp(n) == IF n < 0 THEN 0 ELSE IF n > 100 THEN 100 ELSE n

CategoryScores(findings) ==
    [c \in Category |->
       Clamp(100 - Total([i \in DOMAIN findings |->
                            IF findings[i].category = c THEN findings[i].penalty ELSE 0]))]

(* The weighted sum of the category scores, in hundredths of a point.      *)
Term(cs, c) == cs[c] * Weight[c]

Weighted(cs) ==
    Term(cs, "Metadata") + Term(cs, "Crawlability") + Term(cs, "Structure")
    + Term(cs, "Links") + Term(cs, "Security") + Term(cs, "Media")
    + Term(cs, "SocialTags")

(* f64::round: half a point goes up.                                       *)
Rounded(e) == (e + 50) \div 100

(* The terms are added as floating-point numbers in the order in which a   *)
(* HashMap iterates, which differs from map to map.  The order is lost in  *)
(* the rounding unless the sum is exactly half a point; then it shows if   *)
(* some term is no multiple of a quarter, and so no binary fraction.       *)
PageScores(cs) ==
    LET e == Weighted(cs)
    IN  IF e % 100 = 50 /\ \E c \in Category : Term(cs, c) % 25 # 0
        THEN {e \div 100, e \div 100 + 1}
        ELSE {Rounded(e)}

(* A mean that is cut off, not rounded; of no page it is 0.                *)
Mean(numbers) == IF numbers = <<>> THEN 0 ELSE Total(numbers) \div Len(numbers)

score_site(scores) == Mean(scores)
=============================================================================
