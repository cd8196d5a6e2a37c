----------------------------- MODULE MCDispatch -----------------------------
(* One message of every kind, and beside it a second one of the same user   *)
(* that takes the last token or shares the reply tracker with it.           *)
EXTENDS Dispatch, TLC
CONSTANTS m1, m2

Says(field, value) == [NoMatch EXCEPT ![field] = value]

MCKinds ==
  {Says("shape", "slash"), Says("shape", "jamo"), NoMatch, Says("theme", TRUE)}
    \cup {Says("explicit", i) : i \in Elements(Registered) \cup {"calc"}}
    \cup {Says("bare", b) : b \in {{"gold"}, {"coin", "stock"}, {"stock"}, {"chart"}}}
    \cup {Says("hits", h) : h \in {{"calc"}, {"chart"}, {"coupang"}, {"coupang", "youtube"},
                                  {"forex-convert", "url-summary"}}}
    \cup {Says("auto", {"coin"})}

MCMatches ==
  m1 :> MCKinds @@ m2 :> {Says("explicit", "coin"), Says("hits", {"coupang"})}

MCBarred == {{}, {"coin", "coupang", "youtube", "url-summary", "chart"}}
==============================================================================
