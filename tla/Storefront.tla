------------------------------ MODULE Storefront ------------------------------
(***************************************************************************)
(* What customers see of a business besides its services: the portfolio    *)
(* with its gallery and its questions (BusinessPortfolioService and the    *)
(* portfolio views of business/api/views.py), and the reviews of bookings  *)
(* (reviews/serializers.py, reviews/api/views.py).                         *)
(*                                                                         *)
(* A request looks at what is there and then writes in one transaction.    *)
(* An update of the portfolio writes its row first, so that of two updates *)
(* one waits for the other before it touches the gallery or the questions; *)
(* but the pictures are counted before.                                    *)
(***************************************************************************)
EXTENDS Integers, FiniteSets

CONSTANTS
    Picture,        \* the gallery images that may be uploaded
    MaxGallery,     \* MAX_GALLERY_IMAGES
    MaxFaq,         \* bound of the model: the lists of questions ever stored
    Reviewed,       \* the bookings that can be reviewed
    MaxImages,      \* of a review
    ShopWorker,     \* the requests in flight at a time
    Noone

ASSUME StorefrontAssumption ==
    /\ IsFiniteSet(Picture)
    /\ MaxGallery \in Nat
    /\ MaxFaq \in Nat
    /\ MaxImages \in Nat
    /\ Noone \notin Reviewed

VARIABLES
    open,       \* the profile of the business is active
    portfolio,  \* the BusinessPortfolio
    gallery,    \* its pictures
    faq,        \* its questions, by the list they came with
    lists,      \* how many lists have been stored
    complete,   \* the bookings that are completed
    review,     \* the Reviews
    shopJob,    \* the request each worker is handling
    jostled,    \* history: two updates of the portfolio overlapped
    surprised   \* history: the business was closed while a request about the
                \* portfolio was in flight

shopHistory == <<jostled, surprised>>
shopVars == <<open, portfolio, gallery, faq, lists, complete, review, shopJob,
              shopHistory>>
-------------------------------------------------------------------------------
PortfolioRow == {"none", "active", "inactive"}

ReviewRow == [status : {"none", "active", "inactive"}, images : 0 .. MaxImages]

(* read: the portfolio as it was read; pictures: those uploaded; fresh:    *)
(* there is a list of questions.                                           *)
ShopJob == [step     : {"idle", "create", "update", "review"},
            read     : PortfolioRow,
            pictures : SUBSET Picture,
            fresh    : BOOLEAN,
            booking  : Reviewed \cup {Noone},
            images   : 0 .. MaxImages]

NoReview == [status |-> "none", images |-> 0]
ShopIdle == [step |-> "idle", read |-> "none", pictures |-> {}, fresh |-> FALSE,
             booking |-> Noone, images |-> 0]

StorefrontTypeOK ==
    /\ open \in BOOLEAN
    /\ portfolio \in PortfolioRow
    /\ gallery \subseteq Picture
    /\ faq \subseteq 1 .. MaxFaq
    /\ lists \in 0 .. MaxFaq
    /\ complete \subseteq Reviewed
    /\ review \in [Reviewed -> ReviewRow]
    /\ shopJob \in [ShopWorker -> ShopJob]
    /\ jostled \in BOOLEAN
    /\ surprised \in BOOLEAN

StorefrontInit ==
    /\ open = TRUE
    /\ portfolio = "none"
    /\ gallery = {}
    /\ faq = {}
    /\ lists = 0
    /\ complete = {}
    /\ review = [k \in Reviewed |-> NoReview]
    /\ shopJob = [w \in ShopWorker |-> ShopIdle]
    /\ jostled = FALSE
    /\ surprised = FALSE
-------------------------------------------------------------------------------
ShopAt(w, step) == shopJob[w].step = step
ShopReturn(w) == shopJob' = [shopJob EXCEPT ![w] = ShopIdle]

Uploading == {w \in ShopWorker : shopJob[w].step \in {"create", "update"}}
Unseen == Picture \ (gallery \cup UNION {shopJob[w].pictures : w \in ShopWorker})

(* A request that stores the pictures and, if fresh, a list of questions.  *)
Upload(w, step, pictures, fresh) ==
    /\ ShopAt(w, "idle")
    /\ open
    /\ pictures \subseteq Unseen
    /\ shopJob' = [shopJob EXCEPT ![w] =
          [ShopIdle EXCEPT !.step = step, !.read = portfolio,
                           !.pictures = pictures, !.fresh = fresh]]
    /\ jostled' = (jostled \/ Uploading # {})
    /\ UNCHANGED <<open, portfolio, gallery, faq, lists, complete, review, surprised>>

(* The list of questions of this request, in place of those before.        *)
StoreFaq(w) ==
    IF shopJob[w].fresh
    THEN /\ lists < MaxFaq
         /\ lists' = lists + 1
         /\ faq' = {lists'}
    ELSE UNCHANGED <<faq, lists>>
-------------------------------------------------------------------------------
(* BusinessPortfolioCreateAPIView; a business has one portfolio, which the *)
(* database sees to.                                                       *)
PortfolioCheck(w, pictures, fresh) ==
    /\ portfolio = "none"
    /\ Cardinality(pictures) <= MaxGallery
    /\ Upload(w, "create", pictures, fresh)

PortfolioCreate(w) ==
    /\ ShopAt(w, "create")
    /\ portfolio = "none"
    /\ portfolio' = "active"
    /\ gallery' = shopJob[w].pictures
    /\ StoreFaq(w)
    /\ ShopReturn(w)
    /\ UNCHANGED <<open, complete, review, shopHistory>>

(* Fault: only the new pictures are counted.                               *)
PortfolioCountNew(w, pictures, fresh) ==
    /\ portfolio # "none"
    /\ Cardinality(pictures) <= MaxGallery
    /\ Upload(w, "update", pictures, fresh)

(* update_portfolio counts the pictures ...                                *)
PortfolioCount(w, pictures, fresh) ==
    /\ portfolio # "none"
    /\ Cardinality(gallery) + Cardinality(pictures) <= MaxGallery
    /\ Upload(w, "update", pictures, fresh)

(* ... and saves every column of the portfolio, as it was read.            *)
PortfolioUpdate(w) ==
    /\ ShopAt(w, "update")
    /\ portfolio' = shopJob[w].read
    /\ gallery' = gallery \cup shopJob[w].pictures
    /\ StoreFaq(w)
    /\ ShopReturn(w)
    /\ UNCHANGED <<open, complete, review, shopHistory>>

GalleryDelete(g) ==
    /\ open
    /\ g \in gallery
    /\ gallery' = gallery \ {g}
    /\ UNCHANGED <<open, portfolio, faq, lists, complete, review, shopJob, shopHistory>>

(* The last question of a list goes.                                       *)
FaqDelete(n) ==
    /\ open
    /\ n \in faq
    /\ faq' = faq \ {n}
    /\ UNCHANGED <<open, portfolio, gallery, lists, complete, review, shopJob,
                   shopHistory>>
-------------------------------------------------------------------------------
CompleteBooking(k) ==
    /\ complete' = complete \cup {k}
    /\ UNCHANGED <<open, portfolio, gallery, faq, lists, review, shopJob, shopHistory>>

(* ReviewCreateSerializer: a completed booking without a review.  The      *)
(* database lets a booking have one.                                       *)
ReviewCheck(w, k, n) ==
    /\ ShopAt(w, "idle")
    /\ k \in complete
    /\ review[k].status = "none"
    /\ shopJob' = [shopJob EXCEPT ![w] =
          [ShopIdle EXCEPT !.step = "review", !.booking = k, !.images = n]]
    /\ UNCHANGED <<open, portfolio, gallery, faq, lists, complete, review, shopHistory>>

ReviewCreate(w) ==
    LET k == shopJob[w].booking IN
    /\ ShopAt(w, "review")
    /\ review[k].status = "none"
    /\ review' = [review EXCEPT ![k] =
          [status |-> "active", images |-> shopJob[w].images]]
    /\ ShopReturn(w)
    /\ UNCHANGED <<open, portfolio, gallery, faq, lists, complete, shopHistory>>

ReviewDelete(k) ==
    /\ review[k].status # "none"
    /\ review' = [review EXCEPT ![k] = NoReview]
    /\ UNCHANGED <<open, portfolio, gallery, faq, lists, complete, shopJob, shopHistory>>

(* Fault: whether the picture is still there is not asked.                 *)
ReviewImageDeleteAgain(k) ==
    /\ review[k].status # "none"
    /\ review' = [review EXCEPT ![k].images = @ - 1]
    /\ UNCHANGED <<open, portfolio, gallery, faq, lists, complete, shopJob, shopHistory>>

ReviewImageDelete(k) ==
    /\ review[k].images > 0
    /\ review' = [review EXCEPT ![k].images = @ - 1]
    /\ UNCHANGED <<open, portfolio, gallery, faq, lists, complete, shopJob, shopHistory>>
-------------------------------------------------------------------------------
(* deactivate_related: the portfolio and the reviews become inactive.      *)
CloseShop ==
    /\ open
    /\ open' = FALSE
    /\ portfolio' = IF portfolio = "none" THEN "none" ELSE "inactive"
    /\ review' = [k \in Reviewed |->
          IF review[k].status = "none" THEN review[k]
          ELSE [review[k] EXCEPT !.status = "inactive"]]
    /\ surprised' = (Uploading # {})
    /\ UNCHANGED <<gallery, faq, lists, complete, shopJob, jostled>>

(* An admin activates the profile again.                                   *)
OpenShop ==
    /\ ~open
    /\ open' = TRUE
    /\ UNCHANGED <<portfolio, gallery, faq, lists, complete, review, shopJob,
                   shopHistory>>

(* The request is refused or fails, or its worker is killed.               *)
ShopAbort(w) ==
    /\ ~ShopAt(w, "idle")
    /\ ShopReturn(w)
    /\ UNCHANGED <<open, portfolio, gallery, faq, lists, complete, review, shopHistory>>

StorefrontNext ==
    \/ \E w \in ShopWorker :
          \/ \E pictures \in SUBSET Picture, fresh \in BOOLEAN :
                PortfolioCheck(w, pictures, fresh) \/ PortfolioCount(w, pictures, fresh)
          \/ PortfolioCreate(w)
          \/ PortfolioUpdate(w)
          \/ \E k \in Reviewed, n \in 0 .. MaxImages : ReviewCheck(w, k, n)
          \/ ReviewCreate(w)
          \/ ShopAbort(w)
    \/ \E g \in Picture : GalleryDelete(g)
    \/ \E n \in faq : FaqDelete(n)
    \/ \E k \in Reviewed : CompleteBooking(k) \/ ReviewDelete(k) \/ ReviewImageDelete(k)
    \/ CloseShop
    \/ OpenShop

StorefrontSpec == StorefrontInit /\ [][StorefrontNext]_shopVars
-------------------------------------------------------------------------------
(* Properties.                                                             *)

(* "Maximum 10 images allowed in total", however they come and go, unless  *)
(* two updates overlapped; and the portfolio of a closed business is not   *)
(* active, unless an update was on its way when it was closed.             *)
StorefrontInOrder ==
    /\ jostled \/ Cardinality(gallery) <= MaxGallery
    /\ ~open => surprised \/ portfolio # "active"
===============================================================================
