--------------------------- MODULE ListingsProofs ---------------------------
(***************************************************************************)
(* Theorems about the life of a listing.  A form the affiliate sends tells *)
(* what its route read before the transaction; the invariant says what the *)
(* form still knows when its versions still match: the units on hand, and  *)
(* that there is room for one more image.  Each action is summed up by     *)
(* what it does to the inventory, to the product and to the forms.         *)
(***************************************************************************)
EXTENDS Listings, FiniteSetTheorems, TLAPS

Stocks == [onHand : Int, reserved : Nat, version : 1..MaxMoves]
Products == [status : {"NONE", "DRAFT", "PUBLISHED", "ARCHIVED", "DELETED"},
             version : 1..MaxVersion]
Edits == [op : {"edit"}, version : 1..MaxVersion, stock : (0..MaxStock) \cup {Same},
          approved : BOOLEAN, inventory : Stocks]
Additions == [op : {"append", "import"}, version : 1..MaxVersion, image : Images, count : Nat]

\* An edit whose inventory is fresh knows the units on hand, but for restocks.
EditInv(t) ==
    requests[t].op = "edit" =>
        /\ requests[t] \in Edits
        /\ product.status # "NONE"
        /\ requests[t].inventory.version <= stock.version
        /\ requests[t].inventory.version = stock.version =>
               restocks.met \/ requests[t].inventory.onHand = stock.onHand

\* An image whose product is fresh was counted with room for it.
AdditionInv(t) ==
    requests[t].op \in {"append", "import"} =>
        /\ requests[t] \in Additions
        /\ product.status # "NONE"
        /\ requests[t].version <= product.version
        /\ requests[t].version = product.version /\ Exists =>
               Cardinality(DOMAIN images) + 1 <= MaxImages

\* Images a product may have.
Fits(S) == IsFiniteSet(S) /\ S \subseteq Images /\ Cardinality(S) <= MaxImages

\* An order asked for is one of the images the route read.
OrderInv(t) == requests[t].op = "order" => Fits(ToSet(requests[t].order))

Decisions == {"APPROVED", "REJECTED", "CHANGES_REQUESTED"}

ReviewOK == review = None \/ review.op \in Decisions

ListingsInv ==
    /\ ListingTypeOK
    /\ IsFiniteSet(DOMAIN images)
    /\ ReviewOK
    /\ product.status = "NONE" => stock.reserved = 0
    /\ \A t \in Tabs : EditInv(t) /\ AdditionInv(t) /\ OrderInv(t)
    /\ StockExplained

-----------------------------------------------------------------------------
(* What a step does to the inventory, to the product and to the forms.     *)

StockTypes == stock \in Stocks /\ books \in Int /\ restocks \in [count : 0..MaxMoves, met : BOOLEAN]

StillStock == UNCHANGED <<stock, books, restocks>>

\* A movement that the next form can see.
Counted ==
    /\ stock' \in Stocks /\ books' \in Int
    /\ stock'.version = stock.version + 1
    /\ restocks.met \/ stock'.onHand = books'
    /\ UNCHANGED restocks

\* The product is created, when there can be no form.
Created ==
    /\ product.status = "NONE" /\ product'.status # "NONE"
    /\ stock' \in Stocks /\ books' \in Int
    /\ stock'.onHand = books'
    /\ UNCHANGED restocks

StockMoves == StillStock \/ Counted \/ Created \/ RestockUnit

ImagesOK == Fits(DOMAIN images)

StillProduct == UNCHANGED <<product, images>> /\ (Exists \/ UNCHANGED stock)

NewVersion ==
    /\ product' \in Products
    /\ product.status # "NONE" /\ product'.status # "NONE"
    /\ product'.version = product.version + 1
    /\ ImagesOK'

Comes ==
    /\ product.status = "NONE" /\ product' \in Products
    /\ product'.status = "DRAFT" /\ product'.version = product.version
    /\ UNCHANGED images

Goes ==
    /\ product.status # "NONE" /\ product' \in Products
    /\ product'.status = "DELETED" /\ product'.version = product.version
    /\ images' = <<>>

ProductMoves == StillProduct \/ NewVersion \/ Comes \/ Goes

FormsKept ==
    /\ DOMAIN requests' = Tabs
    /\ \A t \in Tabs : requests'[t] = requests[t] \/ requests'[t] = None

\* What the other variables are made of.
RestTypes ==
    /\ listing \in ListingStatuses \cup {"NONE"}
    /\ sales \in [open : Nat, closed : Nat]
    /\ held \in BOOLEAN /\ seen \in BOOLEAN
    /\ ReviewOK

LEMMA Constants ==
    /\ MaxImages \in Nat /\ MaxStock \in Nat /\ MaxVersion \in Nat /\ MaxMoves \in Nat
    /\ MaxVersion > 0 /\ MaxMoves > 0
BY ListingsAssumption

LEMMA TypesSplit ==
    ListingTypeOK /\ IsFiniteSet(DOMAIN images) /\ ReviewOK <=>
        /\ product \in Products /\ ImagesOK /\ StockTypes /\ RestTypes
        /\ DOMAIN requests = Tabs
BY DEF ListingTypeOK, Products, ImagesOK, Fits, StockTypes, Stocks, RestTypes, ReviewOK

LEMMA RestockFacts ==
    ASSUME StockTypes, RestockUnit
    PROVE  /\ stock' \in Stocks /\ books' \in Int
           /\ stock'.onHand = stock.onHand + 1 /\ books' = books + 1
           /\ stock'.version = stock.version
           /\ restocks' \in [count : 0..MaxMoves, met : BOOLEAN]
           /\ restocks'.met <=> restocks.met \/ \E q \in Tabs : requests[q].op = "edit"
<1>1. /\ stock.onHand < MaxStock /\ restocks.count < MaxMoves
      /\ stock' = [stock EXCEPT !.onHand = @ + 1]
      /\ books' = books + 1
      /\ restocks' = [count |-> restocks.count + 1,
                      met |-> restocks.met \/ \E q \in Tabs : requests[q].op = "edit"]
  BY DEF RestockUnit
<1>2. /\ stock'.onHand = stock.onHand + 1 /\ stock'.version = stock.version
      /\ stock.onHand \in Int
      /\ restocks'.met <=> restocks.met \/ \E q \in Tabs : requests[q].op = "edit"
  BY <1>1 DEF StockTypes, Stocks
<1>3. stock' \in Stocks /\ books' \in Int
  <2>1. stock.onHand + 1 \in Int
    BY <1>2
  <2> QED
    BY <1>1, <2>1 DEF StockTypes, Stocks
<1>4. restocks' \in [count : 0..MaxMoves, met : BOOLEAN]
  <2>1. restocks.count + 1 \in 0..MaxMoves
    BY <1>1, Constants DEF StockTypes
  <2>2. (restocks.met \/ \E q \in Tabs : requests[q].op = "edit") \in BOOLEAN
    OBVIOUS
  <2> QED
    BY <1>1, <2>1, <2>2
<1> QED
  BY <1>1, <1>2, <1>3, <1>4

\* Every movement is explained.
LEMMA StockMovesExplained ==
    ASSUME StockTypes, StockExplained, StockMoves
    PROVE  StockTypes' /\ StockExplained'
<1>1. CASE StillStock
  BY <1>1 DEF StillStock, StockTypes, StockExplained
<1>2. CASE Counted \/ Created
  BY <1>2 DEF Counted, Created, StockTypes, StockExplained
<1>3. CASE RestockUnit
  BY <1>3, RestockFacts DEF StockTypes, StockExplained
<1> QED
  BY <1>1, <1>2, <1>3 DEF StockMoves

\* The inventory moves and the forms know it.
LEMMA StockMovesSeen ==
    ASSUME StockTypes, NEW t \in Tabs, EditInv(t), StockMoves,
           requests'[t] = requests[t] \/ requests'[t] = None,
           product.status # "NONE" => product'.status # "NONE"
    PROVE  EditInv(t)'
<1>0. requests'[t].op = "edit" => requests'[t] = requests[t] /\ requests[t].op = "edit"
  BY DEF None
<1>1. CASE StillStock
  BY <1>0, <1>1 DEF StillStock, EditInv
<1>2. CASE Counted
  <2>1. stock.version \in Nat /\ stock'.version = stock.version + 1
    BY <1>2, Constants DEF Counted, StockTypes, Stocks
  <2>2. requests[t].op = "edit" => requests[t].inventory.version \in Nat
    BY Constants DEF EditInv, Edits, Stocks
  <2> QED
    BY <1>0, <2>1, <2>2 DEF EditInv
<1>3. CASE Created
  BY <1>0, <1>3 DEF Created, EditInv
<1>4. CASE RestockUnit
  <2>1. /\ stock'.version = stock.version
        /\ requests[t].op = "edit" => restocks'.met
    BY <1>4, RestockFacts
  <2> QED
    BY <1>0, <2>1 DEF EditInv
<1> QED
  BY <1>1, <1>2, <1>3, <1>4 DEF StockMoves

\* The product moves, and its images stay within the limit.
LEMMA ProductMovesTyped ==
    ASSUME product \in Products, ImagesOK, ProductMoves
    PROVE  product' \in Products /\ ImagesOK'
<1>1. CASE StillProduct \/ Comes
  BY <1>1 DEF StillProduct, Comes, ImagesOK
<1>2. CASE NewVersion
  BY <1>2 DEF NewVersion
<1>3. CASE Goes
  <2>1. DOMAIN images' = {}
    BY <1>3 DEF Goes
  <2>2. ImagesOK'
    BY <2>1, FS_EmptySet, Constants DEF ImagesOK, Fits
  <2> QED
    BY <1>3, <2>2 DEF Goes
<1> QED
  BY <1>1, <1>2, <1>3 DEF ProductMoves

\* The product moves and the forms know it.
LEMMA ProductMovesSeen ==
    ASSUME product \in Products, NEW t \in Tabs, AdditionInv(t), ProductMoves,
           requests'[t] = requests[t] \/ requests'[t] = None
    PROVE  AdditionInv(t)'
<1>0. requests'[t].op \in {"append", "import"} =>
          requests'[t] = requests[t] /\ requests[t].op \in {"append", "import"}
  BY DEF None
<1>1. CASE StillProduct
  BY <1>0, <1>1 DEF StillProduct, AdditionInv, Exists
<1>2. CASE NewVersion
  <2>1. product.version \in Nat /\ product'.version = product.version + 1
    BY <1>2, Constants DEF NewVersion, Products
  <2>2. requests[t].op \in {"append", "import"} => requests[t].version \in Nat
    BY Constants DEF AdditionInv, Additions
  <2> QED
    BY <1>0, <1>2, <2>1, <2>2 DEF AdditionInv, NewVersion
<1>3. CASE Comes
  BY <1>0, <1>3 DEF Comes, AdditionInv
<1>4. CASE Goes
  BY <1>0, <1>4 DEF Goes, AdditionInv, Exists
<1> QED
  BY <1>1, <1>2, <1>3, <1>4 DEF ProductMoves

\* A step that opens no form.
LEMMA MovesSound ==
    ASSUME ListingsInv, StockMoves, ProductMoves, FormsKept, RestTypes'
    PROVE  ListingsInv'
<1>1. product \in Products /\ ImagesOK /\ StockTypes
  BY TypesSplit DEF ListingsInv
<1>2. product.status # "NONE" => product'.status # "NONE"
  BY DEF ProductMoves, StillProduct, NewVersion, Comes, Goes
<1>3. /\ StockTypes' /\ StockExplained'
      /\ product' \in Products /\ ImagesOK'
  BY <1>1, StockMovesExplained, ProductMovesTyped DEF ListingsInv
<1>4. ASSUME NEW t \in Tabs
      PROVE  EditInv(t)' /\ AdditionInv(t)' /\ OrderInv(t)'
  <2>1. EditInv(t) /\ AdditionInv(t) /\ OrderInv(t)
    BY DEF ListingsInv
  <2>2. requests'[t] = requests[t] \/ requests'[t] = None
    BY DEF FormsKept
  <2>3. OrderInv(t)'
    BY <2>1, <2>2 DEF OrderInv, None
  <2> QED
    BY <1>1, <1>2, <2>1, <2>2, <2>3, StockMovesSeen, ProductMovesSeen
<1>5. product'.status = "NONE" => stock'.reserved = 0
  BY DEF ListingsInv, ProductMoves, StillProduct, NewVersion, Comes, Goes, Exists
<1>6. (ListingTypeOK /\ IsFiniteSet(DOMAIN images) /\ ReviewOK)'
  BY <1>3 DEF ListingTypeOK, Products, ImagesOK, Fits, StockTypes, Stocks, RestTypes, ReviewOK, FormsKept
<1> QED
  BY <1>3, <1>4, <1>5, <1>6 DEF ListingsInv

\* A step that opens one form and nothing else.
LEMMA BeginSound ==
    ASSUME ListingsInv, NEW t \in Tabs, NEW r, Begin(t, r),
           r.op = "edit" =>
               r \in Edits /\ r.inventory = stock,
           r.op \in {"append", "import"} =>
               /\ r \in Additions /\ r.version = product.version
               /\ Cardinality(DOMAIN images) + 1 <= MaxImages,
           r.op = "order" => Fits(ToSet(r.order))
    PROVE  ListingsInv'
<1>1. /\ UNCHANGED <<product, listing, images, stock, sales, books, held, seen, restocks>>
      /\ requests' = [requests EXCEPT ![t] = r]
      /\ Exists
  BY DEF Begin
<1>2. DOMAIN requests = Tabs
  BY DEF ListingsInv, ListingTypeOK
<1>3. (ListingTypeOK /\ IsFiniteSet(DOMAIN images) /\ ReviewOK)' /\ StockExplained'
  BY <1>1, <1>2 DEF Begin, ListingsInv, ListingTypeOK, ReviewOK, StockExplained
<1>4. ASSUME NEW p \in Tabs
      PROVE  EditInv(p)' /\ AdditionInv(p)' /\ OrderInv(p)'
  <2>1. CASE p = t
    <3>1. requests'[p] = r
      BY <1>1, <1>2, <2>1
    <3>2. stock.version \in Nat /\ product.version \in Nat
      BY Constants, TypesSplit DEF ListingsInv, StockTypes, Stocks, Products
    <3> QED
      BY <1>1, <3>1, <3>2 DEF EditInv, AdditionInv, OrderInv, Exists
  <2>2. CASE p # t
    <3>1. requests'[p] = requests[p]
      BY <1>1, <1>2, <2>2
    <3> QED
      BY <1>1, <3>1 DEF ListingsInv, EditInv, AdditionInv, OrderInv, Exists
  <2> QED
    BY <2>1, <2>2
<1> QED
  BY <1>1, <1>3, <1>4 DEF ListingsInv

\* The actions in which a route reads and checks, before its transaction.
Asks(t) ==
    \/ \E n \in (0..MaxStock) \cup {Same} : AskEdit(t, n)
    \/ AskSubmit(t) \/ AskArchive(t) \/ AskUnarchive(t) \/ AskDelete(t)
    \/ \E i \in Images \ DOMAIN images : AskAddImage(t, i)
    \/ \E op \in {"caption", "remove"}, i \in Images : AskImage(t, op, i)
    \/ \E s \in Orders : AskOrder(t, s)

LEMMA AsksSound ==
    ASSUME ListingsInv, NEW t \in Tabs, Asks(t)
    PROVE  ListingsInv'
<1>0. product \in Products /\ stock \in Stocks /\ IsFiniteSet(DOMAIN images) /\ ImagesOK
  BY TypesSplit DEF ListingsInv, StockTypes
<1>1. ASSUME NEW n \in (0..MaxStock) \cup {Same}, AskEdit(t, n)
      PROVE  ListingsInv'
  <2> DEFINE r == [op |-> "edit", version |-> product.version, stock |-> n,
                   approved |-> listing = "APPROVED", inventory |-> stock]
  <2>1. r \in Edits /\ r.op = "edit" /\ r.inventory = stock
    BY <1>0 DEF Edits, Products
  <2>2. Begin(t, r)
    BY <1>1 DEF AskEdit
  <2> HIDE DEF r
  <2> QED
    BY <2>1, <2>2, BeginSound
<1>2. ASSUME NEW i \in Images \ DOMAIN images, AskAddImage(t, i)
      PROVE  ListingsInv'
  <2>1. Cardinality(DOMAIN images) + 1 <= MaxImages
    BY <1>2 DEF AskAddImage
  <2>2. PICK op \in {"append", "import"} :
           Begin(t, [op |-> op, version |-> product.version, image |-> i,
                     count |-> Cardinality(DOMAIN images)])
    BY <1>2 DEF AskAddImage
  <2> DEFINE r == [op |-> op, version |-> product.version, image |-> i,
                   count |-> Cardinality(DOMAIN images)]
  <2>3. Cardinality(DOMAIN images) \in Nat
    BY <1>0, FS_CardinalityType
  <2>4. r \in Additions /\ r.op = op /\ r.version = product.version
    BY <1>0, <2>3 DEF Additions, Products
  <2>5. Begin(t, r)
    BY <2>2
  <2> HIDE DEF r
  <2> QED
    BY <2>1, <2>4, <2>5, BeginSound
<1>3. ASSUME NEW r, Begin(t, r), r.op \notin {"edit", "append", "import", "order"}
      PROVE  ListingsInv'
  BY <1>3, BeginSound
<1>4. CASE AskSubmit(t)
  BY <1>3, <1>4 DEF AskSubmit
<1>5. CASE AskArchive(t)
  BY <1>3, <1>5 DEF AskArchive
<1>6. CASE AskUnarchive(t)
  BY <1>3, <1>6 DEF AskUnarchive
<1>7. CASE AskDelete(t)
  BY <1>3, <1>7 DEF AskDelete
<1>8. ASSUME NEW op \in {"caption", "remove"}, NEW i \in Images, AskImage(t, op, i)
      PROVE  ListingsInv'
  BY <1>3, <1>8 DEF AskImage
<1>9. ASSUME NEW s \in Orders, AskOrder(t, s)
      PROVE  ListingsInv'
  <2> DEFINE r == [op |-> "order", version |-> product.version, order |-> s]
  <2>1. r.op = "order" /\ Fits(ToSet(r.order))
    BY <1>0, <1>9 DEF AskOrder, ImagesOK
  <2>2. Begin(t, r)
    BY <1>9 DEF AskOrder
  <2> HIDE DEF r
  <2> QED
    BY <2>1, <2>2, BeginSound
<1> QED
  BY <1>1, <1>2, <1>4, <1>5, <1>6, <1>7, <1>8, <1>9 DEF Asks

-----------------------------------------------------------------------------
(* What every action does, in these terms.                                 *)

Statuses == {"DRAFT", "PUBLISHED", "ARCHIVED"}

LEMMA BumpIsNewVersion ==
    ASSUME product \in Products, Exists, NEW status \in Statuses, Bump(status), ImagesOK'
    PROVE  NewVersion
<1>1. /\ product.version < MaxVersion
      /\ product' = [status |-> status, version |-> product.version + 1]
  BY DEF Bump, Bumped
<1>2. product.version + 1 \in 1..MaxVersion
  BY <1>1, Constants DEF Products
<1> QED
  BY <1>1, <1>2 DEF NewVersion, Products, Exists, Statuses

LEMMA KeptStatus ==
    ASSUME product \in Products, Exists
    PROVE  product.status \in Statuses
BY DEF Products, Exists, Statuses

LEMMA MovedStock ==
    ASSUME StockTypes, NEW onHand \in Int, NEW reserved \in Nat,
           MoveStock(onHand, reserved)
    PROVE  /\ stock' \in Stocks /\ stock'.onHand = onHand /\ stock'.reserved = reserved
           /\ stock'.version = stock.version + 1
<1>1. /\ stock.version < MaxMoves
      /\ stock' = [onHand |-> onHand, reserved |-> reserved, version |-> stock.version + 1]
  BY DEF MoveStock
<1>2. stock.version + 1 \in 1..MaxMoves
  BY <1>1, Constants DEF StockTypes, Stocks
<1> QED
  BY <1>1, <1>2 DEF Stocks

LEMMA AnswerKeeps ==
    ASSUME ListingsInv, NEW t \in Tabs, NEW op, Answer(t, op)
    PROVE  /\ FormsKept /\ Exists /\ Accepts(requests[t]) /\ requests[t].op = op
           /\ requests'[t] = None
BY DEF Answer, FormsKept, ListingsInv, ListingTypeOK

\* The images after each operation.
LEMMA AddedFits ==
    ASSUME ImagesOK, NEW i \in Images, Cardinality(DOMAIN images) + 1 <= MaxImages, NEW new,
           DOMAIN new = DOMAIN images \cup {i}
    PROVE  Fits(DOMAIN new)
<1>1. IsFiniteSet(DOMAIN images) /\ Cardinality(DOMAIN images) \in Nat
  BY FS_CardinalityType DEF ImagesOK, Fits
<1>2. /\ IsFiniteSet(DOMAIN images \cup {i})
      /\ Cardinality(DOMAIN images \cup {i}) <= Cardinality(DOMAIN images) + 1
      /\ Cardinality(DOMAIN images \cup {i}) \in Nat
  <2>1. CASE i \in DOMAIN images
    <3>1. DOMAIN images \cup {i} = DOMAIN images
      BY <2>1
    <3> QED
      BY <1>1, <3>1
  <2>2. CASE i \notin DOMAIN images
    BY <1>1, <2>2, FS_AddElement
  <2> QED
    BY <2>1, <2>2
<1> QED
  BY <1>1, <1>2, Constants DEF ImagesOK, Fits

LEMMA SubsetFits ==
    ASSUME NEW S, Fits(S), NEW R \in SUBSET S
    PROVE  Fits(R)
<1>1. /\ IsFiniteSet(R) /\ Cardinality(R) <= Cardinality(S)
      /\ Cardinality(R) \in Nat /\ Cardinality(S) \in Nat
  BY FS_Subset, FS_CardinalityType DEF Fits
<1> QED
  BY <1>1, Constants DEF Fits

LEMMA EditSound ==
    ASSUME ListingsInv, NEW t \in Tabs, CommitEdit(t)
    PROVE  ListingsInv'
<1> DEFINE r == requests[t]
<1>1. /\ product \in Products /\ ImagesOK /\ StockTypes /\ RestTypes
      /\ EditInv(t) /\ StockExplained
  BY TypesSplit DEF ListingsInv
<1>2. /\ FormsKept /\ Exists /\ r.op = "edit" /\ InventoryFresh(r)
  BY AnswerKeeps DEF CommitEdit, Accepts
<1>3. r \in Edits
  BY <1>1, <1>2 DEF EditInv
<1>4. NewVersion
  BY <1>1, <1>2, BumpIsNewVersion DEF CommitEdit, OffShelf, ImagesOK, Statuses
<1>5. CASE r.stock = Same
  <2>1. UNCHANGED <<stock, books, held>> /\ UNCHANGED <<sales, restocks>>
    BY <1>5 DEF CommitEdit
  <2>2. StillStock
    BY <2>1 DEF StillStock
  <2>3. RestTypes'
    BY <1>1, <2>1 DEF CommitEdit, RestTypes, ReviewOK, AfterEdit, ListingStatuses
  <2> QED
    BY <1>2, <1>4, <2>2, <2>3, MovesSound DEF StockMoves, ProductMoves
<1>6. CASE r.stock # Same
  <2>1. /\ MoveStock(r.stock, stock.reserved)
        /\ books' = books + (r.stock - r.inventory.onHand)
        /\ held' = (held \/ r.stock # r.inventory.onHand)
        /\ UNCHANGED <<sales, restocks>>
    BY <1>6 DEF CommitEdit
  <2>2. /\ r.stock \in 0..MaxStock /\ r.inventory \in Stocks
        /\ stock.reserved \in Nat /\ books \in Int
    BY <1>1, <1>3, <1>6 DEF Edits, StockTypes, Stocks
  <2>3. /\ stock' \in Stocks /\ stock'.onHand = r.stock
        /\ stock'.version = stock.version + 1
    BY <1>1, <2>1, <2>2, MovedStock
  <2>4. restocks.met \/ r.inventory.onHand = stock.onHand
    BY <1>1, <1>2, <1>6 DEF InventoryFresh, EditInv
  <2>5. restocks.met \/ stock.onHand = books
    BY <1>1 DEF StockExplained
  <2>6. r.stock \in Int /\ r.inventory.onHand \in Int /\ stock.onHand \in Int
    BY <1>1, <2>2, Constants DEF StockTypes, Stocks
  <2>7. books' \in Int /\ (restocks.met \/ stock'.onHand = books')
    BY <2>1, <2>2, <2>3, <2>4, <2>5, <2>6
  <2>8. Counted
    BY <2>1, <2>3, <2>7 DEF Counted
  <2>9. RestTypes'
    BY <1>1, <2>1 DEF CommitEdit, RestTypes, ReviewOK, AfterEdit, ListingStatuses
  <2> QED
    BY <1>2, <1>4, <2>8, <2>9, MovesSound DEF StockMoves, ProductMoves
<1> QED
  BY <1>5, <1>6

\* The other answers: the inventory stays as it is.
LEMMA AnswersSound ==
    ASSUME ListingsInv, NEW t \in Tabs,
           \/ CommitSubmit(t) \/ CommitArchive(t) \/ CommitUnarchive(t) \/ CommitDelete(t)
           \/ Refuse(t)
    PROVE  ListingsInv'
<1>1. product \in Products /\ ImagesOK /\ StockTypes /\ RestTypes
  BY TypesSplit DEF ListingsInv
<1>2. CASE CommitSubmit(t)
  <2>1. FormsKept
    BY <1>2, AnswerKeeps DEF CommitSubmit
  <2>2. StillProduct /\ StillStock /\ RestTypes'
    BY <1>1, <1>2 DEF CommitSubmit, StillProduct, StillStock, RestTypes, ReviewOK, ListingStatuses
  <2> QED
    BY <2>1, <2>2, MovesSound DEF StockMoves, ProductMoves
<1>3. ASSUME CommitArchive(t) \/ CommitUnarchive(t)
      PROVE  ListingsInv'
  <2>1. FormsKept /\ Exists
    BY <1>3, AnswerKeeps DEF CommitArchive, CommitUnarchive
  <2>2. PICK status \in Statuses : Bump(status)
    BY <1>3 DEF CommitArchive, CommitUnarchive, Statuses
  <2>3. StillStock /\ RestTypes' /\ ImagesOK'
    BY <1>1, <1>3 DEF CommitArchive, CommitUnarchive, StillStock, RestTypes, ReviewOK, ImagesOK
  <2>4. NewVersion
    BY <1>1, <2>1, <2>2, <2>3, BumpIsNewVersion
  <2> QED
    BY <2>1, <2>3, <2>4, MovesSound DEF StockMoves, ProductMoves
<1>4. CASE CommitDelete(t)
  <2>1. FormsKept /\ Exists
    BY <1>4, AnswerKeeps DEF CommitDelete
  <2>2. Goes /\ StillStock /\ RestTypes'
    BY <1>1, <1>4, <2>1 DEF CommitDelete, Gone, Goes, Products, Exists, StillStock, RestTypes, ReviewOK
  <2> QED
    BY <2>1, <2>2, MovesSound DEF StockMoves, ProductMoves
<1>5. CASE Refuse(t)
  <2>1. FormsKept
    BY <1>5 DEF Refuse, FormsKept, ListingsInv, ListingTypeOK
  <2>2. StillProduct /\ StillStock /\ RestTypes'
    BY <1>1, <1>5 DEF Refuse, StillProduct, StillStock, RestTypes, ReviewOK
  <2> QED
    BY <2>1, <2>2, MovesSound DEF StockMoves, ProductMoves
<1> QED
  BY <1>2, <1>3, <1>4, <1>5

\* Every route of the images leaves a new version of the product.
LEMMA CommitImagesSound ==
    ASSUME ListingsInv, NEW t \in Tabs, NEW op, NEW new, CommitImages(t, op, new),
           Fits(DOMAIN new)
    PROVE  ListingsInv'
<1>1. product \in Products /\ StockTypes /\ RestTypes
  BY TypesSplit DEF ListingsInv
<1>2. FormsKept /\ Exists
  BY AnswerKeeps DEF CommitImages
<1>3. ImagesOK' /\ StillStock /\ RestTypes'
  BY <1>1 DEF CommitImages, ImagesOK, StillStock, RestTypes, ReviewOK, ListingStatuses
<1>4. NewVersion
  BY <1>1, <1>2, <1>3, BumpIsNewVersion DEF CommitImages, OffShelf, Statuses
<1> QED
  BY <1>2, <1>3, <1>4, MovesSound DEF StockMoves, ProductMoves

LEMMA ImagesSound ==
    ASSUME ListingsInv, NEW t \in Tabs,
           \/ AppendImage(t) \/ ImportImage(t) \/ CaptionImage(t)
           \/ RemoveImage(t) \/ OrderImages(t)
    PROVE  ListingsInv'
<1>1. /\ product \in Products /\ ImagesOK
      /\ AdditionInv(t) /\ OrderInv(t)
  BY TypesSplit DEF ListingsInv
<1>2. ASSUME NEW new, CommitImages(t, "append", new) \/ CommitImages(t, "import", new),
             DOMAIN new = DOMAIN images \cup {requests[t].image}
      PROVE  ListingsInv'
  <2>1. /\ requests[t].op \in {"append", "import"} /\ Accepts(requests[t]) /\ Exists
    BY <1>2, AnswerKeeps DEF CommitImages
  <2>2. Fresh(requests[t])
    BY <2>1 DEF Accepts
  <2>3. /\ requests[t].image \in Images
        /\ Cardinality(DOMAIN images) + 1 <= MaxImages
    BY <1>1, <2>1, <2>2 DEF AdditionInv, Additions, Fresh
  <2>4. Fits(DOMAIN new)
    BY <1>1, <1>2, <2>3, AddedFits
  <2> QED
    BY <1>2, <2>4, CommitImagesSound
<1>3. CASE AppendImage(t)
  BY <1>2, <1>3 DEF AppendImage, Appended
<1>4. CASE ImportImage(t)
  BY <1>2, <1>4 DEF ImportImage, Prepended
<1>5. CASE CaptionImage(t)
  BY <1>1, <1>5, CommitImagesSound DEF CaptionImage, ImagesOK
<1>6. CASE RemoveImage(t)
  <2>1. DOMAIN Kept(requests[t].image) \in SUBSET DOMAIN images
    BY DEF Kept
  <2> QED
    BY <1>1, <1>6, <2>1, SubsetFits, CommitImagesSound DEF RemoveImage, ImagesOK
<1>7. CASE OrderImages(t)
  <2>1. requests[t].op = "order"
    BY <1>7, AnswerKeeps DEF OrderImages, CommitImages
  <2>2. Fits(DOMAIN Places(requests[t].order))
    BY <1>1, <2>1 DEF OrderInv, Places
  <2> QED
    BY <1>7, <2>2, CommitImagesSound DEF OrderImages
<1> QED
  BY <1>3, <1>4, <1>5, <1>6, <1>7

LEMMA CreateSound ==
    ASSUME ListingsInv, NEW n \in 0..MaxStock, CreateListing(n) \/ CreateProduct(n)
    PROVE  ListingsInv'
<1>1. product \in Products /\ ImagesOK /\ StockTypes /\ RestTypes
  BY TypesSplit DEF ListingsInv
<1>2. /\ product.status = "NONE" /\ product' = [product EXCEPT !.status = "DRAFT"]
      /\ stock' = [stock EXCEPT !.onHand = n] /\ books' = n
      /\ UNCHANGED <<images, sales, requests, restocks>>
  BY DEF CreateListing, CreateProduct
<1>3. Comes
  BY <1>1, <1>2 DEF Comes, Products
<1>4. Created
  BY <1>1, <1>2, <1>3, Constants DEF Created, Comes, StockTypes, Stocks
<1>5. FormsKept
  BY <1>2 DEF FormsKept, ListingsInv, ListingTypeOK
<1>6. RestTypes'
  <2>1. CASE CreateListing(n)
    BY <1>1, <2>1 DEF CreateListing, RestTypes, ReviewOK, ListingStatuses
  <2>2. CASE CreateProduct(n)
    <3>1. (n > 0) \in BOOLEAN
      OBVIOUS
    <3> QED
      BY <1>1, <2>2, <3>1 DEF CreateProduct, RestTypes, ReviewOK
  <2> QED
    BY <2>1, <2>2
<1> QED
  BY <1>3, <1>4, <1>5, <1>6, MovesSound DEF StockMoves, ProductMoves

LEMMA ReviewSound ==
    ASSUME ListingsInv,
           (\E d \in Decisions : StartReview(d)) \/ CommitReview \/ FailReview
    PROVE  ListingsInv'
<1>1. product \in Products /\ ImagesOK /\ StockTypes /\ RestTypes
  BY TypesSplit DEF ListingsInv
<1>2. FormsKept
  BY DEF StartReview, CommitReview, FailReview, FormsKept, ListingsInv, ListingTypeOK
<1>3. ASSUME NEW d \in Decisions, StartReview(d) \/ FailReview
      PROVE  ListingsInv'
  <2>1. StillProduct /\ StillStock
    BY <1>3 DEF StartReview, FailReview, StillProduct, StillStock
  <2>2. RestTypes'
    BY <1>1, <1>3 DEF StartReview, FailReview, RestTypes, ReviewOK
  <2> QED
    BY <1>2, <2>1, <2>2, MovesSound DEF StockMoves, ProductMoves
<1>4. CASE CommitReview
  <2>1. review.op \in Decisions
    BY <1>1, <1>4 DEF CommitReview, RestTypes, ReviewOK
  <2>2. StillStock /\ RestTypes' /\ ImagesOK'
    BY <1>1, <1>4, <2>1
       DEF CommitReview, StillStock, RestTypes, ReviewOK, Decisions, ListingStatuses, ImagesOK
  <2>3. NewVersion
    BY <1>1, <1>4, <2>2, BumpIsNewVersion DEF CommitReview, Statuses
  <2> QED
    BY <1>2, <2>2, <2>3, MovesSound DEF StockMoves, ProductMoves
<1> QED
  BY <1>3, <1>4 DEF Decisions

\* The back office writes a new version of the product.
LEMMA BackOfficeVersionSound ==
    ASSUME ListingsInv, NEW status \in Statuses, Exists, Bump(status), ImagesOK',
           UNCHANGED <<listing, stock, sales, books, held, seen, requests, review, restocks>>
    PROVE  ListingsInv'
<1>1. product \in Products /\ StockTypes /\ RestTypes
  BY TypesSplit DEF ListingsInv
<1>2. NewVersion
  BY <1>1, BumpIsNewVersion
<1>3. FormsKept /\ StillStock /\ RestTypes'
  BY <1>1 DEF FormsKept, StillStock, RestTypes, ReviewOK, ListingsInv, ListingTypeOK
<1> QED
  BY <1>2, <1>3, MovesSound DEF StockMoves, ProductMoves

LEMMA ChangeImagesSound ==
    ASSUME ListingsInv, NEW new, ChangeImages(new), Fits(DOMAIN new)
    PROVE  ListingsInv'
<1>1. product.status \in Statuses /\ Exists
  BY KeptStatus, TypesSplit DEF ListingsInv, ChangeImages
<1>2. ImagesOK'
  BY DEF ChangeImages, ImagesOK
<1> QED
  BY <1>1, <1>2, BackOfficeVersionSound DEF ChangeImages

\* A sequence of a set's elements has no others.
LEMMA SequencesOfSet ==
    ASSUME NEW S, NEW s \in SetToSeqs(S)
    PROVE  ToSet(s) \subseteq S
<1>1. s \in [1..Cardinality(S) -> S]
  BY DEF SetToSeqs
<1> QED
  BY <1>1 DEF ToSet

LEMMA BackOfficeImagesSound ==
    ASSUME ListingsInv,
           \/ \E i \in Images \ DOMAIN images : AddProductImage(i) \/ ImportProductImage(i)
           \/ \E i \in Images : UpdateProductImage(i)
           \/ \E s \in Orders : ReorderProductImages(s)
           \/ \E i \in Images : RetireProductImage(i)
    PROVE  ListingsInv'
<1>1. ImagesOK
  BY TypesSplit DEF ListingsInv
<1>2. ASSUME NEW i \in Images \ DOMAIN images, AddProductImage(i) \/ ImportProductImage(i)
      PROVE  ListingsInv'
  <2>1. PICK new : ChangeImages(new) /\ DOMAIN new = DOMAIN images \cup {i}
    BY <1>2 DEF AddProductImage, ImportProductImage, Appended, Prepended
  <2>2. Cardinality(DOMAIN images) + 1 <= MaxImages
    BY <1>2 DEF AddProductImage, ImportProductImage, Room
  <2>3. Fits(DOMAIN new)
    BY <1>1, <2>1, <2>2, AddedFits
  <2> QED
    BY <2>1, <2>3, ChangeImagesSound
<1>3. ASSUME NEW i \in Images, UpdateProductImage(i)
      PROVE  ListingsInv'
  BY <1>1, <1>3, ChangeImagesSound DEF UpdateProductImage, ImagesOK
<1>4. ASSUME NEW s, ReorderProductImages(s)
      PROVE  ListingsInv'
  <2>1. DOMAIN Places(s) = DOMAIN images /\ ChangeImages(Places(s))
    BY <1>4 DEF ReorderProductImages, Places
  <2> QED
    BY <1>1, <2>1, ChangeImagesSound DEF ImagesOK
<1>5. ASSUME NEW i \in Images, RetireProductImage(i)
      PROVE  ListingsInv'
  <2>1. PICK s \in SetToSeqs(DOMAIN images \ {i}) : ChangeImages(Places(s))
    BY <1>5 DEF RetireProductImage
  <2>2. DOMAIN Places(s) \in SUBSET DOMAIN images
    BY SequencesOfSet DEF Places
  <2>3. Fits(DOMAIN Places(s))
    BY <1>1, <2>2, SubsetFits DEF ImagesOK
  <2> QED
    BY <2>1, <2>3, ChangeImagesSound
<1> QED
  BY <1>2, <1>3, <1>4, <1>5

LEMMA BackOfficeSound ==
    ASSUME ListingsInv,
           \/ UpdateProduct \/ DeleteProduct \/ SupplierPurchase
           \/ \E s \in {"PUBLISHED", "ARCHIVED"} : SetProductStatus(s)
    PROVE  ListingsInv'
<1>1. product \in Products /\ ImagesOK /\ StockTypes /\ RestTypes
  BY TypesSplit DEF ListingsInv
<1>2. CASE UpdateProduct
  <2>1. product.status \in Statuses /\ Exists /\ ImagesOK'
    BY <1>1, <1>2, KeptStatus DEF UpdateProduct, ImagesOK
  <2> QED
    BY <1>2, <2>1, BackOfficeVersionSound DEF UpdateProduct
<1>3. ASSUME NEW s \in {"PUBLISHED", "ARCHIVED"}, SetProductStatus(s)
      PROVE  ListingsInv'
  <2>1. s \in Statuses /\ Exists /\ ImagesOK'
    BY <1>1, <1>3 DEF SetProductStatus, ImagesOK, Statuses
  <2> QED
    BY <1>3, <2>1, BackOfficeVersionSound DEF SetProductStatus
<1>4. CASE DeleteProduct
  <2>1. FormsKept
    BY <1>4 DEF DeleteProduct, FormsKept, ListingsInv, ListingTypeOK
  <2>2. Goes /\ StillStock
    BY <1>1, <1>4 DEF DeleteProduct, Gone, Goes, Products, StillStock
  <2>3. RestTypes'
    BY <1>1, <1>4 DEF DeleteProduct, Gone, RestTypes, ReviewOK
  <2> QED
    BY <2>1, <2>2, <2>3, MovesSound DEF StockMoves, ProductMoves
<1>5. CASE SupplierPurchase
  <2>1. CASE CreateProduct(0)
    <3>1. 0 \in 0..MaxStock
      BY Constants
    <3> QED
      BY <2>1, <3>1, CreateSound
  <2>2. CASE UNCHANGED listingVars
    <3>1. FormsKept /\ StillProduct /\ StillStock
      BY <2>2 DEF listingVars, FormsKept, StillProduct, StillStock, ListingsInv, ListingTypeOK
    <3>2. RestTypes'
      BY <1>1, <2>2 DEF listingVars, RestTypes, ReviewOK
    <3> QED
      BY <3>1, <3>2, MovesSound DEF StockMoves, ProductMoves
  <2> QED
    BY <1>5, <2>1, <2>2 DEF SupplierPurchase
<1> QED
  BY <1>2, <1>3, <1>4, <1>5

\* A movement of the inventory that leaves the product as it is.
LEMMA CountedSound ==
    ASSUME ListingsInv, NEW onHand \in Int, NEW reserved \in Nat,
           MoveStock(onHand, reserved), books' = books + (onHand - stock.onHand),
           UNCHANGED <<product, images, requests, restocks>>, Exists, RestTypes'
    PROVE  ListingsInv'
<1>1. StockTypes /\ StockExplained
  BY TypesSplit DEF ListingsInv
<1>2. stock' \in Stocks /\ stock'.onHand = onHand /\ stock'.version = stock.version + 1
  BY <1>1, MovedStock
<1>3. onHand \in Int /\ stock.onHand \in Int /\ books \in Int
  BY <1>1, Constants DEF StockTypes, Stocks
<1>4. books' \in Int /\ (restocks.met \/ stock'.onHand = books')
  BY <1>1, <1>2, <1>3 DEF StockExplained
<1>5. Counted
  BY <1>2, <1>4 DEF Counted
<1>6. FormsKept /\ StillProduct
  BY DEF FormsKept, StillProduct, ListingsInv, ListingTypeOK
<1> QED
  BY <1>5, <1>6, MovesSound DEF StockMoves, ProductMoves

LEMMA OrdersSound ==
    ASSUME ListingsInv,
           OrdersNext \/ \E delta \in {-1, 1} : AdjustInventory(delta)
    PROVE  ListingsInv'
<1>1. StockTypes /\ RestTypes
  BY TypesSplit DEF ListingsInv
<1>2. stock.onHand \in Int /\ stock.reserved \in Nat /\ books \in Int
  BY <1>1, Constants DEF StockTypes, Stocks
<1>3. ASSUME NEW delta \in {-1, 1}, AdjustInventory(delta)
      PROVE  ListingsInv'
  <2>1. /\ stock.onHand + delta \in Int
        /\ books' = books + ((stock.onHand + delta) - stock.onHand)
    BY <1>2, <1>3, Constants DEF AdjustInventory
  <2>2. RestTypes'
    BY <1>1, <1>3 DEF AdjustInventory, RestTypes, ReviewOK
  <2> QED
    BY <1>2, <1>3, <2>1, <2>2, CountedSound DEF AdjustInventory
<1>4. CASE Checkout
  <2>1. stock.reserved + 1 \in Nat /\ books' = books + (stock.onHand - stock.onHand)
    BY <1>2, <1>4 DEF Checkout
  <2>2. RestTypes'
    BY <1>1, <1>4 DEF Checkout, RestTypes, ReviewOK
  <2> QED
    BY <1>2, <1>4, <2>1, <2>2, CountedSound DEF Checkout, Purchasable, Exists
<1>5. CASE ReleaseUnit
  <2>1. stock.reserved - 1 \in Nat /\ books' = books + (stock.onHand - stock.onHand)
    BY <1>2, <1>5 DEF ReleaseUnit
  <2>2. RestTypes'
    BY <1>1, <1>5 DEF ReleaseUnit, RestTypes, ReviewOK
  <2> QED
    BY <1>2, <1>5, <2>1, <2>2, CountedSound DEF ReleaseUnit
<1>6. CASE SellUnit
  <2>1. /\ stock.onHand - 1 \in Int /\ stock.reserved - 1 \in Nat
        /\ books' = books + ((stock.onHand - 1) - stock.onHand)
    BY <1>2, <1>6, Constants DEF SellUnit
  <2>2. RestTypes'
    <3>1. sales' \in [open : Nat, closed : Nat]
      BY <1>1, <1>6 DEF SellUnit, RestTypes
    <3> QED
      BY <1>1, <1>6, <3>1 DEF SellUnit, RestTypes, ReviewOK
  <2> QED
    BY <1>6, <2>1, <2>2, CountedSound DEF SellUnit
<1>7. CASE CloseOrder
  <2>1. FormsKept /\ StillProduct /\ StillStock
    BY <1>7 DEF CloseOrder, FormsKept, StillProduct, StillStock, ListingsInv, ListingTypeOK
  <2>2. RestTypes'
    <3>1. sales.open - 1 \in Nat /\ sales.closed + 1 \in Nat
      BY <1>1, <1>7 DEF CloseOrder, RestTypes
    <3> QED
      BY <1>1, <1>7, <3>1 DEF CloseOrder, RestTypes, ReviewOK
  <2> QED
    BY <2>1, <2>2, MovesSound DEF StockMoves, ProductMoves
<1>8. CASE RestockUnit
  <2>1. FormsKept /\ StillProduct
    BY <1>8 DEF RestockUnit, FormsKept, StillProduct, ListingsInv, ListingTypeOK
  <2>2. RestTypes'
    <3>1. PICK orders \in {"open", "closed"} :
             sales[orders] > 0 /\ sales' = [sales EXCEPT ![orders] = @ - 1]
      BY <1>8 DEF RestockUnit
    <3>2. sales[orders] \in Nat
      BY <1>1 DEF RestTypes
    <3>3. sales[orders] - 1 \in Nat
      BY <3>1, <3>2
    <3>4. sales' \in [open : Nat, closed : Nat]
      BY <1>1, <3>1, <3>3 DEF RestTypes
    <3> QED
      BY <1>1, <1>8, <3>4 DEF RestockUnit, RestTypes, ReviewOK
  <2> QED
    BY <1>8, <2>1, <2>2, MovesSound DEF StockMoves, ProductMoves
<1> QED
  BY <1>3, <1>4, <1>5, <1>6, <1>7, <1>8 DEF OrdersNext

-----------------------------------------------------------------------------

LEMMA ListingsInitially ==
    ASSUME ListingsInit
    PROVE  ListingsInv
<1>1. DOMAIN images = {} /\ IsFiniteSet({}) /\ Cardinality({}) = 0
  BY FS_EmptySet DEF ListingsInit
<1>2. ListingTypeOK
  <2>1. 1 \in 1..MaxVersion /\ 1 \in 1..MaxMoves /\ 0 \in 0..MaxMoves /\ 0 \in 0..MaxStock
    BY Constants
  <2>2. product \in [status : {"NONE", "DRAFT", "PUBLISHED", "ARCHIVED", "DELETED"},
                    version : 1..MaxVersion]
    BY <2>1 DEF ListingsInit
  <2>3. stock \in [onHand : Int, reserved : Nat, version : 1..MaxMoves]
    BY <2>1 DEF ListingsInit
  <2>4. restocks \in [count : 0..MaxMoves, met : BOOLEAN]
    BY <2>1 DEF ListingsInit
  <2>5. Cardinality(DOMAIN images) <= MaxImages
    BY <1>1, Constants
  <2>6. sales \in [open : Nat, closed : Nat] /\ books \in Int
    BY DEF ListingsInit
  <2>7. DOMAIN requests = Tabs
    BY DEF ListingsInit
  <2>8. listing \in ListingStatuses \cup {"NONE"} /\ held \in BOOLEAN /\ seen \in BOOLEAN
    BY DEF ListingsInit
  <2> QED
    BY <1>1, <2>2, <2>3, <2>4, <2>5, <2>6, <2>7, <2>8 DEF ListingTypeOK
<1>3. \A t \in Tabs : requests[t].op = "none"
  BY DEF ListingsInit, None
<1> QED
  BY <1>1, <1>2, <1>3
     DEF ListingsInit, ListingsInv, ReviewOK, EditInv, AdditionInv, OrderInv, StockExplained

LEMMA ListingsStep ==
    ASSUME ListingsInv, [ListingsNext]_listingVars
    PROVE  ListingsInv'
<1>1. CASE AffiliateNext
  <2>1. ASSUME NEW t \in Tabs, Asks(t)
        PROVE  ListingsInv'
    BY <2>1, AsksSound
  <2>2. ASSUME NEW t \in Tabs,
               \/ CommitEdit(t) \/ CommitSubmit(t) \/ CommitArchive(t)
               \/ CommitUnarchive(t) \/ CommitDelete(t) \/ Refuse(t)
        PROVE  ListingsInv'
    BY <2>2, EditSound, AnswersSound
  <2>3. ASSUME NEW t \in Tabs,
               \/ AppendImage(t) \/ ImportImage(t) \/ CaptionImage(t)
               \/ RemoveImage(t) \/ OrderImages(t)
        PROVE  ListingsInv'
    BY <2>3, ImagesSound
  <2> QED
    BY <1>1, <2>1, <2>2, <2>3, CreateSound DEF AffiliateNext, Asks
<1>2. CASE ReviewNext
  BY <1>2, ReviewSound DEF ReviewNext, Decisions
<1>3. CASE BackOfficeNext
  BY <1>3, CreateSound, BackOfficeSound, BackOfficeImagesSound, OrdersSound DEF BackOfficeNext
<1>4. CASE OrdersNext
  BY <1>4, OrdersSound
<1>5. CASE UNCHANGED listingVars
  <2>1. FormsKept /\ StillProduct /\ StillStock
    BY <1>5 DEF listingVars, FormsKept, StillProduct, StillStock, ListingsInv, ListingTypeOK
  <2>2. RestTypes'
    BY <1>5, TypesSplit DEF listingVars, ListingsInv, RestTypes, ReviewOK
  <2> QED
    BY <2>1, <2>2, MovesSound DEF StockMoves, ProductMoves
<1> QED
  BY <1>1, <1>2, <1>3, <1>4, <1>5 DEF ListingsNext

\* What every form still knows is kept by every route, review and order
\* (affiliates/index.ts, orders.ts, the back office's product writes).
THEOREM ListingsInvariance == ListingsSpec => []ListingsInv
BY ListingsInitially, ListingsStep, PTL DEF ListingsSpec

\* The types, and that no product has more images than the limit: the count is
\* read before the transaction that adds one (affiliates/index.ts).
THEOREM ListingTypes == ListingsSpec => []ListingTypeOK
<1>1. ListingsInv => ListingTypeOK
  BY DEF ListingsInv
<1> QED
  BY <1>1, ListingsInvariance, PTL

\* The units on hand are those that adjustments, sales and restocks explain,
\* unless a restock came while a form was open, for any number of forms.
THEOREM UnitsExplained == ListingsSpec => []StockExplained
<1>1. ListingsInv => StockExplained
  BY DEF ListingsInv
<1> QED
  BY <1>1, ListingsInvariance, PTL

-----------------------------------------------------------------------------
(* What a step may not do.                                                 *)

LEMMA RestockedMore ==
    ASSUME StockTypes, RestockUnit
    PROVE  stock'.onHand = stock.onHand + 1 /\ stock'.reserved = stock.reserved
BY DEF RestockUnit, StockTypes, Stocks

\* The steps that move the inventory and are no form's.
LEMMA CoverKept ==
    ASSUME ListingsInv, stock.reserved <= stock.onHand,
           OrdersNext \/ (\E delta \in {-1, 1} : AdjustInventory(delta)) \/ UNCHANGED stock
    PROVE  stock'.reserved <= stock'.onHand
<1>1. StockTypes
  BY TypesSplit DEF ListingsInv
<1>2. stock.onHand \in Int /\ stock.reserved \in Int
  BY <1>1, Constants DEF StockTypes, Stocks
<1>3. ASSUME NEW delta \in {-1, 1}, AdjustInventory(delta)
      PROVE  stock'.reserved <= stock'.onHand
  BY <1>2, <1>3 DEF AdjustInventory, MoveStock
<1>4. CASE Checkout
  BY <1>2, <1>4 DEF Checkout, MoveStock
<1>5. CASE ReleaseUnit
  BY <1>2, <1>5 DEF ReleaseUnit, MoveStock
<1>6. CASE SellUnit
  BY <1>2, <1>6 DEF SellUnit, MoveStock
<1>7. CASE RestockUnit
  BY <1>1, <1>2, <1>7, RestockedMore
<1>8. CASE CloseOrder \/ UNCHANGED stock
  BY <1>8 DEF CloseOrder
<1> QED
  BY <1>3, <1>4, <1>5, <1>6, <1>7, <1>8 DEF OrdersNext

\* A product is created with nothing reserved.
LEMMA CreatedUnreserved ==
    ASSUME ListingsInv, NEW n \in 0..MaxStock, CreateListing(n) \/ CreateProduct(n)
    PROVE  stock'.reserved <= stock'.onHand
<1>1. /\ product.status = "NONE" /\ stock' = [stock EXCEPT !.onHand = n]
      /\ stock \in Stocks
  BY TypesSplit DEF CreateListing, CreateProduct, ListingsInv, StockTypes
<1>2. stock'.onHand = n /\ stock'.reserved = 0
  BY <1>1 DEF ListingsInv, Stocks
<1> QED
  BY <1>2, Constants

\* The steps that leave the inventory alone.
LEMMA OthersLeaveStock ==
    ASSUME [ListingsNext]_listingVars,
           ~\E t \in Tabs : CommitEdit(t),
           ~\E n \in 0..MaxStock : CreateListing(n) \/ CreateProduct(n),
           ~CreateProduct(0), ~OrdersNext, ~\E delta \in {-1, 1} : AdjustInventory(delta)
    PROVE  UNCHANGED stock
<1>1. CASE AffiliateNext
  <2>1. ASSUME NEW t \in Tabs, Asks(t)
        PROVE  UNCHANGED stock
    BY <2>1 DEF Asks, AskEdit, AskSubmit, AskArchive, AskUnarchive, AskDelete, AskAddImage,
                AskImage, AskOrder, Begin
  <2>2. ASSUME NEW t \in Tabs,
               \/ CommitSubmit(t) \/ CommitArchive(t) \/ CommitUnarchive(t) \/ CommitDelete(t)
               \/ AppendImage(t) \/ ImportImage(t) \/ CaptionImage(t)
               \/ RemoveImage(t) \/ OrderImages(t) \/ Refuse(t)
        PROVE  UNCHANGED stock
    BY <2>2 DEF CommitSubmit, CommitArchive, CommitUnarchive, CommitDelete, Gone, AppendImage,
                ImportImage, CaptionImage, RemoveImage, OrderImages, CommitImages, Refuse
  <2> QED
    BY <1>1, <2>1, <2>2 DEF AffiliateNext, Asks
<1>2. CASE ReviewNext
  BY <1>2 DEF ReviewNext, StartReview, CommitReview, FailReview
<1>3. CASE BackOfficeNext
  BY <1>3 DEF BackOfficeNext, UpdateProduct, SetProductStatus, DeleteProduct, Gone,
              SupplierPurchase, AddProductImage, ImportProductImage, UpdateProductImage,
              ReorderProductImages, RetireProductImage, ChangeImages, listingVars
<1>4. CASE UNCHANGED listingVars
  BY <1>4 DEF listingVars
<1> QED
  BY <1>1, <1>2, <1>3, <1>4 DEF ListingsNext

\* No movement of orders or of the back office leaves more units reserved than
\* there are: only the affiliate's form does, which writes the units without
\* looking at what is reserved (affiliates/index.ts, PATCH of a listing).
THEOREM ShortOnlyByForm == ListingsSpec => ShortOnlyByListingForm
<1> DEFINE Short ==
      (stock.reserved <= stock.onHand /\ stock'.reserved > stock'.onHand)
          => \E t \in Tabs : requests[t].op = "edit" /\ requests'[t] = None
<1>1. ASSUME ListingsInv, ListingsInv', [ListingsNext]_listingVars
      PROVE  Short
  <2>0. /\ stock.onHand \in Int /\ stock.reserved \in Nat
        /\ stock'.onHand \in Int /\ stock'.reserved \in Nat
    BY <1>1, Constants DEF ListingsInv, ListingTypeOK
  <2>1. ASSUME NEW t \in Tabs, CommitEdit(t)
        PROVE  Short
    BY <1>1, <2>1, AnswerKeeps DEF CommitEdit
  <2>2. ASSUME NEW n \in 0..MaxStock, CreateListing(n) \/ CreateProduct(n)
        PROVE  Short
    BY <1>1, <2>0, <2>2, CreatedUnreserved
  <2>3. CASE OrdersNext \/ (\E delta \in {-1, 1} : AdjustInventory(delta)) \/ UNCHANGED stock
    BY <1>1, <2>0, <2>3, CoverKept
  <2> HIDE DEF Short
  <2>4. 0 \in 0..MaxStock
    BY Constants
  <2> QED
    BY <1>1, <2>1, <2>2, <2>3, <2>4, OthersLeaveStock
<1>2. Short => [Short]_listingVars
  OBVIOUS
<1> HIDE DEF Short
<1>3. ASSUME ListingsInv, ListingsInv', [ListingsNext]_listingVars
      PROVE  [Short]_listingVars
  BY <1>1, <1>3
<1> QED
  BY <1>3, ListingsInvariance, PTL DEF ListingsSpec, ShortOnlyByListingForm, Short

\* The steps after which the listing is approved, or what is shown of it is no
\* longer what was seen.
LEMMA ApprovalsExplained ==
    ASSUME [ListingsNext]_listingVars, listing' = "APPROVED", ~seen'
    PROVE  \/ listing = "APPROVED" /\ ~seen
           \/ review # None /\ review' = None /\ Overtaken
<1>1. CASE AffiliateNext
  <2>1. ASSUME NEW t \in Tabs, Asks(t)
        PROVE  UNCHANGED <<listing, seen>>
    BY <2>1 DEF Asks, AskEdit, AskSubmit, AskArchive, AskUnarchive, AskDelete, AskAddImage,
                AskImage, AskOrder, Begin
  <2>2. ASSUME NEW t \in Tabs,
               CommitArchive(t) \/ CommitUnarchive(t) \/ CommitDelete(t) \/ Refuse(t)
        PROVE  UNCHANGED <<listing, seen>>
    BY <2>2 DEF CommitArchive, CommitUnarchive, CommitDelete, Gone, Refuse
  <2>3. ASSUME NEW t \in Tabs,
               \/ CommitEdit(t) \/ CommitSubmit(t)
               \/ AppendImage(t) \/ ImportImage(t) \/ CaptionImage(t)
               \/ RemoveImage(t) \/ OrderImages(t)
        PROVE  listing' # "APPROVED"
    BY <2>3 DEF CommitEdit, AfterEdit, CommitSubmit, AppendImage, ImportImage, CaptionImage,
                RemoveImage, OrderImages, CommitImages
  <2>4. ASSUME NEW n \in 0..MaxStock, CreateListing(n)
        PROVE  listing' # "APPROVED"
    BY <2>4 DEF CreateListing
  <2> QED
    BY <1>1, <2>1, <2>2, <2>3, <2>4 DEF AffiliateNext, Asks
<1>2. CASE ReviewNext
  <2>1. CASE CommitReview
    BY <2>1 DEF CommitReview
  <2>2. CASE UNCHANGED <<listing, seen>>
    BY <2>2
  <2> QED
    BY <1>2, <2>1, <2>2 DEF ReviewNext, StartReview, FailReview
<1>3. CASE BackOfficeNext
  <2>1. ASSUME NEW n, CreateProduct(n)
        PROVE  seen'
    BY <2>1 DEF CreateProduct
  <2>2. CASE UNCHANGED <<listing, seen>>
    BY <2>2
  <2> QED
    BY <1>3, <2>1, <2>2
       DEF BackOfficeNext, UpdateProduct, SetProductStatus, DeleteProduct, Gone,
           SupplierPurchase, AddProductImage, ImportProductImage, UpdateProductImage,
           ReorderProductImages, RetireProductImage, ChangeImages, AdjustInventory, listingVars
<1>4. CASE OrdersNext
  BY <1>4 DEF OrdersNext, Checkout, ReleaseUnit, SellUnit, CloseOrder, RestockUnit
<1>5. CASE UNCHANGED listingVars
  BY <1>5 DEF listingVars
<1> QED
  BY <1>1, <1>2, <1>3, <1>4, <1>5 DEF ListingsNext

\* A listing is approved with something no administrator was shown only by a
\* review that an edit overtook: no edit keeps an approval, and no later step
\* brings one back (affiliates/index.ts, reviewListing).
THEOREM UnseenOnlyOvertaken == ListingsSpec => UnseenOnlyByOvertakenReview
BY ApprovalsExplained, PTL DEF ListingsSpec, UnseenOnlyByOvertakenReview

=============================================================================
