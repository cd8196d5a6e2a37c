-------------------------- MODULE CoupangResolution --------------------------
(***************************************************************************)
(* How internal/coupang finds out what a product is and what it costs: by  *)
(* its item id at Fallcent, by search keywords at Fallcent, or, where that *)
(* is allowed, from the shop itself (the auxiliary scraper).  A resolution *)
(* meets an outside world w, which says what each of them would answer; it *)
(* gives the state of the source mapping of the product it resolved, or    *)
(* the error it ends with.  Its timeouts are the business of the modules   *)
(* that resolve.                                                           *)
(***************************************************************************)
EXTENDS Integers

(* A Fallcent page, next to the product that is asked for: the very option, *)
(* another option of it, another product; or there is no page (it is not    *)
(* tracked, the fetch fails, the page lacks price, name or purchase link).  *)
FetchProduct == {"option", "product", "other", "none"}

(* Options share the product id: another option is a match.                 *)
FallcentMatchesCoupang(page) == page \in {"option", "product"}

(* The page the item id redirects to.                                       *)
LookupByCoupangID(w) == IF w.itemID THEN w.redirect ELSE "none"

(* The candidates of the keywords: an exact option is preferred.            *)
resolveProductByKeyword(pages) ==
  IF "option" \in pages THEN "option" ELSE IF "product" \in pages THEN "product" ELSE "none"

Worlds ==
  [itemID   : BOOLEAN,                   \* the URL names an item
   redirect : FetchProduct,
   titled   : BOOLEAN,                   \* a stored keyword or name, or an attachment title
   naver    : BOOLEAN,                   \* Naver knows a title
   pages    : SUBSET {"option", "product"},  \* what the keywords find, other pages apart
   aux      : {"product", "blocked", "error"},
   fallback : BOOLEAN,                   \* allowFallback and coupang.allow_auxiliary_fallback
   budget   : 0 .. 2]                    \* what resolutions.Allow lets pass

(* Nothing to search with: the shop, then Naver, are asked for a name.      *)
enrichResolutionKeywords(w) == w.titled \/ (w.fallback /\ (w.aux = "product" \/ w.naver))

resolveWithFallcentDirect(w) ==
  /\ w.itemID /\ w.budget >= 1
  /\ FallcentMatchesCoupang(LookupByCoupangID(w))

(* ResolveProduct looks the item id up once more before it searches.        *)
ResolveProduct(w) ==
  \/ FallcentMatchesCoupang(LookupByCoupangID(w))
  \/ enrichResolutionKeywords(w) /\ FallcentMatchesCoupang(resolveProductByKeyword(w.pages))

resolveWithFallcent(w) ==
  /\ w.budget >= (IF w.itemID THEN 2 ELSE 1)
  /\ ResolveProduct(w)

(* The shop's own answer makes a mapping that failed: no Fallcent id.       *)
resolveWithAuxiliary(w) ==
  CASE ~w.fallback       -> "limited"
    [] w.aux = "product" -> "failed"
    [] OTHER             -> w.aux

resolveForTracking(w) ==
  IF resolveWithFallcentDirect(w) \/ resolveWithFallcent(w) THEN "verified"
  ELSE resolveWithAuxiliary(w)

(* A refresh asks for the page of the mapping first, if that is verified.   *)
fetchRefresh(page, w) ==
  IF FallcentMatchesCoupang(page) THEN "verified" ELSE resolveForTracking(w)

(* A read-through refresh asks for nothing else.  Another product's page is *)
(* no error, and no product either.                                         *)
fetchVerifiedRefresh(page) ==
  CASE FallcentMatchesCoupang(page) -> "verified"
    [] page = "other"               -> "nothing"
    [] OTHER                        -> "error"

(* What a registration, a refresh and a read-through refresh may come to.   *)
Resolutions == {resolveForTracking(w) : w \in Worlds}
Refreshes == {fetchRefresh(page, w) : page \in FetchProduct, w \in Worlds}
ReadThroughs == {fetchVerifiedRefresh(page) : page \in FetchProduct}
Resolved == {"verified", "failed"}
==============================================================================
