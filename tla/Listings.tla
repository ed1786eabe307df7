------------------------------ MODULE Listings ------------------------------
(***************************************************************************)
(* The life of one product: an affiliate's listing or the store's own.     *)
(* The affiliate's routes read the listing first and write in a later      *)
(* transaction, so each is a read and a commit with anything in between;   *)
(* the administrator's review works the same way.  The back office reads   *)
(* and writes inside one coordinated transaction and is a single step.     *)
(*                                                                         *)
(* expectedVersion comes from the page the client loaded.  A page older    *)
(* than the read can only be refused, so a request carries the version     *)
(* the route itself read.  Names, prices and captions are abstracted to    *)
(* "seen": whether an administrator has been shown what buyers see.        *)
(***************************************************************************)
EXTENDS Integers, FiniteSets, Sequences, SequencesExt

CONSTANTS
    Tabs,         \* requests the affiliate may have open at a time
    Images,       \* identifiers of product images
    MaxImages,    \* active images of a product (8 in the code)
    MaxStock,     \* bound: units on hand
    MaxVersion,   \* bound: versions of the product
    MaxMoves      \* bound: versions of the inventory, and unversioned restocks

ASSUME ListingsAssumption ==
    {MaxImages, MaxStock, MaxVersion, MaxMoves} \subseteq Nat \ {0}

VARIABLES
    product,      \* status and version
    listing,      \* status of the AffiliateListing, "NONE" for the store's
    images,       \* active image -> sortOrder
    stock,        \* onHand, reserved and version of the inventory
    sales,        \* units sold in open and in closed orders
    books,        \* the units that adjustments, sales and restocks explain
    held,         \* whether rows that restrict the deletion exist
    seen,         \* an administrator has been shown what buyers see
    requests,     \* the affiliate's requests between their read and commit
    review,       \* the review between its read and its commit
    restocks      \* how many restocks, and whether one met an open form

listingVars == <<product, listing, images, stock, sales, books, held, seen,
                 requests, review, restocks>>

ListingStatuses == {"DRAFT", "PENDING_REVIEW", "APPROVED", "REJECTED",
                    "CHANGES_REQUESTED"}
Unsent == {"DRAFT", "CHANGES_REQUESTED", "REJECTED"}
None == [op |-> "none"]
Same == -1

Exists == product.status \notin {"NONE", "DELETED"}
Purchasable == /\ product.status = "PUBLISHED"
               /\ listing \in {"NONE", "APPROVED"}

\* Orders the routes accept: they compare sets, so an image may be repeated.
Orders == LET once == SetToSeqs(DOMAIN images) IN
          once \cup {Append(s, i) : s \in once, i \in DOMAIN images}

InOrder(i, j) == images[i] <= images[j]
Places(s) == [i \in ToSet(s) |-> (CHOOSE k \in 1..Len(s) :
                 s[k] = i /\ \A m \in k + 1 .. Len(s) : s[m] # i) - 1]
Appended(i, n) == [k \in DOMAIN images \cup {i} |-> IF k = i THEN n ELSE images[k]]
Prepended(i) == [k \in DOMAIN images \cup {i} |-> IF k = i THEN 0 ELSE images[k] + 1]
Kept(i) == [k \in DOMAIN images \ {i} |-> images[k]]

ListingsInit ==
    /\ product = [status |-> "NONE", version |-> 1]
    /\ listing = "NONE"
    /\ images = <<>>
    /\ stock = [onHand |-> 0, reserved |-> 0, version |-> 1]
    /\ sales = [open |-> 0, closed |-> 0]
    /\ books = 0
    /\ held = FALSE
    /\ seen = FALSE
    /\ requests = [t \in Tabs |-> None]
    /\ review = None
    /\ restocks = [count |-> 0, met |-> FALSE]

(***************************************************************************)
(* The affiliate's routes.  Begin keeps of the first read what the commit  *)
(* uses; the early refusals are the guards of each Ask action.             *)
(***************************************************************************)
Begin(t, r) ==
    /\ Exists /\ listing # "NONE"
    /\ requests[t] = None
    /\ requests' = [requests EXCEPT ![t] = r]
    /\ UNCHANGED <<product, listing, images, stock, sales, books, held, seen,
                   review, restocks>>

AskEdit(t, units) ==
    /\ product.status # "ARCHIVED"
    /\ Begin(t, [op |-> "edit", version |-> product.version, stock |-> units,
                 approved |-> listing = "APPROVED", inventory |-> stock])

AskSubmit(t) ==
    /\ stock.onHand > 0
    /\ DOMAIN images # {}
    /\ Begin(t, [op |-> "submit"])

AskArchive(t) ==
    /\ listing = "APPROVED"
    /\ product.status # "ARCHIVED"
    /\ stock.reserved <= 0
    /\ Begin(t, [op |-> "archive", version |-> product.version])

AskUnarchive(t) ==
    /\ product.status = "ARCHIVED"
    /\ Begin(t, [op |-> "unarchive", version |-> product.version,
                 approved |-> listing = "APPROVED"])

AskDelete(t) ==
    /\ listing \in Unsent
    /\ stock.reserved <= 0
    /\ Begin(t, [op |-> "delete", version |-> product.version])

AskAddImage(t, i) ==
    /\ Cardinality(DOMAIN images) + 1 <= MaxImages
    /\ \E op \in {"append", "import"} :
         Begin(t, [op |-> op, version |-> product.version, image |-> i,
                   count |-> Cardinality(DOMAIN images)])

\* The route finds the image only inside the transaction.
AskImage(t, op, i) ==
    Begin(t, [op |-> op, version |-> product.version, image |-> i])

AskOrder(t, s) ==
    /\ ToSet(s) = DOMAIN images
    /\ Begin(t, [op |-> "order", version |-> product.version, order |-> s])

Fresh(r) == r.version = product.version
\* Wrong form of InventoryFresh: an older version passes.
InventoryFreshOrOlder(r) == r.stock = Same \/ r.inventory.version <= stock.version

InventoryFresh(r) == r.stock = Same \/ r.inventory.version = stock.version

Accepts(r) ==
    CASE r.op = "submit" -> listing \in Unsent
      [] r.op = "edit" -> Fresh(r) /\ InventoryFresh(r)
      [] r.op = "delete" -> Fresh(r) /\ ~held
      [] r.op \in {"caption", "remove"} -> Fresh(r) /\ r.image \in DOMAIN images
      [] OTHER -> Fresh(r)

\* The commit answers the request; a write that matches no row rolls back.
Answer(t, op) ==
    /\ requests[t].op = op
    /\ Exists /\ Accepts(requests[t])
    /\ requests' = [requests EXCEPT ![t] = None]

Refuse(t) ==
    /\ requests[t] # None
    /\ ~(Exists /\ Accepts(requests[t]))
    /\ requests' = [requests EXCEPT ![t] = None]
    /\ UNCHANGED <<product, listing, images, stock, sales, books, held, seen,
                   review, restocks>>

Bumped(status) == [status |-> status, version |-> product.version + 1]
Bump(status) == /\ product.version < MaxVersion
                /\ product' = Bumped(status)
OffShelf == Bump("DRAFT")

MoveStock(onHand, reserved) ==
    /\ stock.version < MaxMoves
    /\ stock' = [onHand |-> onHand, reserved |-> reserved,
                 version |-> stock.version + 1]

\* Wrong form of AfterEdit: an approved listing stays approved.
AfterEditKept(r) == IF r.approved THEN "APPROVED" ELSE "DRAFT"

AfterEdit(r) == IF r.approved THEN "PENDING_REVIEW" ELSE "DRAFT"

CommitEdit(t) ==
    LET r == requests[t] IN
    /\ Answer(t, "edit")
    /\ OffShelf
    /\ IF r.stock = Same
         THEN UNCHANGED <<stock, books, held>>
         ELSE /\ MoveStock(r.stock, stock.reserved)
              /\ books' = books + (r.stock - r.inventory.onHand)
              /\ held' = (held \/ r.stock # r.inventory.onHand)
    /\ listing' = AfterEdit(r)
    /\ seen' = FALSE
    /\ UNCHANGED <<images, sales, review, restocks>>

CommitSubmit(t) ==
    /\ Answer(t, "submit")
    /\ listing' = "PENDING_REVIEW"
    /\ UNCHANGED <<product, images, stock, sales, books, held, seen, review,
                   restocks>>

CommitArchive(t) ==
    /\ Answer(t, "archive")
    /\ Bump("ARCHIVED")
    /\ UNCHANGED <<listing, images, stock, sales, books, held, seen, review,
                   restocks>>

CommitUnarchive(t) ==
    /\ Answer(t, "unarchive")
    /\ Bump(IF requests[t].approved THEN "PUBLISHED" ELSE "DRAFT")
    /\ UNCHANGED <<listing, images, stock, sales, books, held, seen, review,
                   restocks>>

Gone == /\ product' = [product EXCEPT !.status = "DELETED"]
        /\ images' = <<>>
        /\ UNCHANGED <<listing, stock, sales, books, seen, review, restocks>>

CommitDelete(t) == Answer(t, "delete") /\ Gone /\ UNCHANGED held

\* What every route of the images does to the listing besides.
CommitImages(t, op, new) ==
    /\ Answer(t, op)
    /\ OffShelf
    /\ images' = new
    /\ listing' = "DRAFT"
    /\ seen' = FALSE
    /\ UNCHANGED <<stock, sales, books, held, review, restocks>>

\* The place of the new image is the count of the first read.
AppendImage(t) ==
    CommitImages(t, "append", Appended(requests[t].image, requests[t].count))
ImportImage(t) == CommitImages(t, "import", Prepended(requests[t].image))
CaptionImage(t) == CommitImages(t, "caption", images)
\* The images that stay keep their numbers.
RemoveImage(t) == CommitImages(t, "remove", Kept(requests[t].image))
OrderImages(t) == CommitImages(t, "order", Places(requests[t].order))

CreateListing(units) ==
    /\ product.status = "NONE"
    /\ product' = [product EXCEPT !.status = "DRAFT"]
    /\ listing' = "DRAFT"
    /\ stock' = [stock EXCEPT !.onHand = units]
    /\ books' = units
    /\ UNCHANGED <<images, sales, held, seen, requests, review, restocks>>

(***************************************************************************)
(* The administrator's review: the version is compared with the product    *)
(* read before the transaction, and both updates inside it are             *)
(* unconditional.                                                          *)
(***************************************************************************)
StartReview(decision) ==
    /\ Exists /\ listing # "NONE"
    /\ review = None
    /\ review' = [op |-> decision, version |-> product.version]
    /\ UNCHANGED <<product, listing, images, stock, sales, books, held, seen,
                   requests, restocks>>

Overtaken == review.version # product.version

CommitReview ==
    /\ review # None
    /\ Exists
    /\ Bump(IF review.op = "APPROVED" THEN "PUBLISHED" ELSE "DRAFT")
    /\ listing' = review.op
    /\ seen' = (seen \/ ~Overtaken)
    /\ review' = None
    /\ UNCHANGED <<images, stock, sales, books, held, requests, restocks>>

FailReview ==
    /\ review # None
    /\ ~Exists
    /\ review' = None
    /\ UNCHANGED <<product, listing, images, stock, sales, books, held, seen,
                   requests, restocks>>

(***************************************************************************)
(* The back office, on any product.  What an administrator writes has been *)
(* seen; what the affiliate had written before it stays as it was.         *)
(***************************************************************************)
CreateProduct(units) ==
    /\ product.status = "NONE"
    /\ product' = [product EXCEPT !.status = "DRAFT"]
    /\ stock' = [stock EXCEPT !.onHand = units]
    /\ books' = units
    /\ held' = (units > 0)
    /\ seen' = TRUE
    /\ UNCHANGED <<listing, images, sales, requests, review, restocks>>

\* A purchase from a supplier creates the products it lists that are not in
\* the catalogue, without stock; of a product that is, it keeps a copy of the
\* name and moves no stock, and its rows let the product be deleted.
SupplierPurchase ==
    \/ CreateProduct(0)
    \/ Exists /\ UNCHANGED listingVars

UpdateProduct ==
    /\ Exists
    /\ Bump(product.status)
    /\ UNCHANGED <<listing, images, stock, sales, books, held, seen, requests,
                   review, restocks>>

SetProductStatus(status) ==
    /\ Exists
    /\ Bump(status)
    /\ UNCHANGED <<listing, images, stock, sales, books, held, seen, requests,
                   review, restocks>>

\* Reservations and adjustments are deleted with the product.
DeleteProduct ==
    /\ product.status = "ARCHIVED"
    /\ stock.reserved <= 0
    /\ sales.open = 0
    /\ Gone
    /\ held' = FALSE
    /\ UNCHANGED requests

ChangeImages(new) ==
    /\ Exists
    /\ Bump(product.status)
    /\ images' = new
    /\ UNCHANGED <<listing, stock, sales, books, held, seen, requests, review,
                   restocks>>

Room == Cardinality(DOMAIN images) + 1 <= MaxImages

AddProductImage(i) ==
    Room /\ ChangeImages(Appended(i, Cardinality(DOMAIN images)))

\* The official picture of the card goes first.
ImportProductImage(i) == Room /\ ChangeImages(Prepended(i))

UpdateProductImage(i) == i \in DOMAIN images /\ ChangeImages(images)

ReorderProductImages(s) ==
    /\ ToSet(s) = DOMAIN images
    /\ ChangeImages(Places(s))

\* The images that stay are numbered again from zero.
RetireProductImage(i) ==
    /\ i \in DOMAIN images
    /\ \E s \in SetToSeqs(DOMAIN images \ {i}) :
         /\ \A m, n \in 1..Len(s) : m < n => InOrder(s[m], s[n])
         /\ ChangeImages(Places(s))

\* Wrong form of AdjustInventory: what is reserved is not kept.
AdjustReserved(delta) ==
    /\ Exists
    /\ stock.onHand + delta \in 0..MaxStock
    /\ MoveStock(stock.onHand + delta, stock.reserved)
    /\ books' = books + delta
    /\ held' = TRUE
    /\ UNCHANGED <<product, listing, images, sales, seen, requests, review,
                   restocks>>

AdjustInventory(delta) ==
    /\ Exists
    /\ stock.onHand + delta \in stock.reserved .. MaxStock
    /\ MoveStock(stock.onHand + delta, stock.reserved)
    /\ books' = books + delta
    /\ held' = TRUE
    /\ UNCHANGED <<product, listing, images, sales, seen, requests, review,
                   restocks>>

(***************************************************************************)
(* What orders do to the product, one unit at a time (orders.ts and the    *)
(* order decisions of the back office; Stock.tla has them in full).        *)
(***************************************************************************)
Checkout ==
    /\ Purchasable
    /\ stock.onHand - stock.reserved >= 1
    /\ MoveStock(stock.onHand, stock.reserved + 1)
    /\ held' = TRUE
    /\ UNCHANGED <<product, listing, images, sales, books, seen, requests,
                   review, restocks>>

ReleaseUnit ==
    /\ Exists /\ stock.reserved > 0
    /\ MoveStock(stock.onHand, stock.reserved - 1)
    /\ UNCHANGED <<product, listing, images, sales, books, held, seen,
                   requests, review, restocks>>

\* A paid unit leaves the shelf.  Mercado Pago's loop takes both counters
\* down without looking at them, and a listing form may have written fewer
\* units than are reserved: the units on hand may become negative.
SellUnit ==
    /\ Exists /\ stock.reserved > 0
    /\ MoveStock(stock.onHand - 1, stock.reserved - 1)
    /\ sales' = [sales EXCEPT !.open = @ + 1]
    /\ books' = books - 1
    /\ UNCHANGED <<product, listing, images, held, seen, requests, review,
                   restocks>>

CloseOrder ==
    /\ sales.open > 0
    /\ sales' = [open |-> sales.open - 1, closed |-> sales.closed + 1]
    /\ UNCHANGED <<product, listing, images, stock, books, held, seen,
                   requests, review, restocks>>

\* The units go back without a new version of the inventory.
RestockUnit ==
    /\ Exists
    /\ restocks.count < MaxMoves
    /\ stock.onHand < MaxStock
    /\ \E orders \in {"open", "closed"} :
         /\ sales[orders] > 0
         /\ sales' = [sales EXCEPT ![orders] = @ - 1]
    /\ stock' = [stock EXCEPT !.onHand = @ + 1]
    /\ books' = books + 1
    /\ restocks' = [count |-> restocks.count + 1,
                    met |-> restocks.met
                            \/ \E t \in Tabs : requests[t].op = "edit"]
    /\ UNCHANGED <<product, listing, images, held, seen, requests, review>>

-----------------------------------------------------------------------------
AffiliateNext ==
    \/ \E n \in 0..MaxStock : CreateListing(n)
    \/ \E t \in Tabs :
         \/ \E n \in (0..MaxStock) \cup {Same} : AskEdit(t, n)
         \/ AskSubmit(t) \/ AskArchive(t) \/ AskUnarchive(t) \/ AskDelete(t)
         \/ \E i \in Images \ DOMAIN images : AskAddImage(t, i)
         \/ \E op \in {"caption", "remove"}, i \in Images : AskImage(t, op, i)
         \/ \E s \in Orders : AskOrder(t, s)
         \/ CommitEdit(t) \/ CommitSubmit(t) \/ CommitArchive(t)
         \/ CommitUnarchive(t) \/ CommitDelete(t)
         \/ AppendImage(t) \/ ImportImage(t) \/ CaptionImage(t)
         \/ RemoveImage(t) \/ OrderImages(t)
         \/ Refuse(t)

ReviewNext ==
    \/ \E d \in {"APPROVED", "REJECTED", "CHANGES_REQUESTED"} : StartReview(d)
    \/ CommitReview
    \/ FailReview

BackOfficeNext ==
    \/ \E n \in 0..MaxStock : CreateProduct(n)
    \/ UpdateProduct
    \/ \E s \in {"PUBLISHED", "ARCHIVED"} : SetProductStatus(s)
    \/ DeleteProduct
    \/ SupplierPurchase
    \/ \E i \in Images \ DOMAIN images :
         AddProductImage(i) \/ ImportProductImage(i)
    \/ \E i \in Images : UpdateProductImage(i)
    \/ \E s \in Orders : ReorderProductImages(s)
    \/ \E i \in Images : RetireProductImage(i)
    \/ \E delta \in {-1, 1} : AdjustInventory(delta)

OrdersNext == Checkout \/ ReleaseUnit \/ SellUnit \/ CloseOrder \/ RestockUnit

ListingsNext == AffiliateNext \/ ReviewNext \/ BackOfficeNext \/ OrdersNext

ListingsSpec == ListingsInit /\ [][ListingsNext]_listingVars

-----------------------------------------------------------------------------
(***************************************************************************)
(* Properties.                                                             *)
(***************************************************************************)
\* The values each variable may take; images never outnumber the limit, so
\* an image may be appended only by a request that counted the ones there.
ListingTypeOK ==
    /\ product \in [status : {"NONE", "DRAFT", "PUBLISHED", "ARCHIVED",
                              "DELETED"},
                    version : 1..MaxVersion]
    /\ listing \in ListingStatuses \cup {"NONE"}
    /\ DOMAIN images \subseteq Images
    /\ Cardinality(DOMAIN images) <= MaxImages
    /\ stock \in [onHand : Int, reserved : Nat, version : 1..MaxMoves]
    /\ sales \in [open : Nat, closed : Nat]
    /\ books \in Int /\ held \in BOOLEAN /\ seen \in BOOLEAN
    /\ DOMAIN requests = Tabs
    /\ restocks \in [count : 0..MaxMoves, met : BOOLEAN]

\* The units on hand are those the adjustment rows, the sales and the
\* restocks explain, unless a restock came while the affiliate's form was
\* open: the form is refused when any other movement overtakes it
\* (index.ts:216), and a restock alone leaves no new version to see.
StockExplained == restocks.met \/ stock.onHand = books

\* The same without the exception: "Inventory was modified by another
\* request" (index.ts:217) is what a form overtaken by a movement is told.
StockAlwaysExplained == stock.onHand = books

\* Only the affiliate's form takes units that are reserved: no movement of
\* orders or of the back office leaves more units reserved than there are.
ShortOnlyByListingForm ==
    [][(stock.reserved <= stock.onHand /\ stock'.reserved > stock'.onHand)
         => \E t \in Tabs : requests[t].op = "edit" /\ requests'[t] = None
      ]_listingVars

\* A listing is approved with something no administrator was shown only by
\* a review that an edit overtook: no edit keeps, and no later step brings
\* back, an approval given to other contents.
UnseenOnlyByOvertakenReview ==
    [][(listing' = "APPROVED" /\ ~seen') =>
         \/ listing = "APPROVED" /\ ~seen
         \/ review # None /\ review' = None /\ Overtaken]_listingVars

\* "Listing was modified by another request" (index.ts:614): a review is of
\* the version it was made on, so what buyers see has been reviewed.
PurchasableWasReviewed == Purchasable => seen

\* A deleted product has no units reserved and no open order.
DeletedOwesNothing ==
    product.status = "DELETED" => stock.reserved = 0 /\ sales.open = 0

Numbered == {images[i] : i \in DOMAIN images}
              = 0 .. Cardinality(DOMAIN images) - 1

\* The store's images are numbered from zero without gaps, so the first one,
\* which an order keeps as its picture, is always a single one.  Only an
\* order that repeats an image breaks it: adding and retiring never do.
NumberedUntilRepeated ==
    [][(listing = "NONE" /\ Numbered /\ ~Numbered')
         => DOMAIN images' = DOMAIN images]_listingVars
=============================================================================
