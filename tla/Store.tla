------------------------------- MODULE Store -------------------------------
(***************************************************************************)
(* The in-memory catalogue of package store (internal/store).  Every       *)
(* operation takes the store's write lock for its whole body, so each is   *)
(* one atomic action on `d`, the data that is written to the snapshot.     *)
(*                                                                         *)
(* An operation that returns an error (bad request, not found, conflict)   *)
(* changes nothing; it is the action being disabled.  The lists, the       *)
(* getters and Stats only read.                                            *)
(*                                                                         *)
(* Names, prices, translations, sort orders and times are left out: no     *)
(* property tells them apart.  A slug is any member of Slugs, given by     *)
(* the client or computed by Slugify from the name.                        *)
(***************************************************************************)
EXTENDS Tables

CONSTANTS
    Slugs,        \* slugs of the content tables
    CharNames,    \* names of characteristics
    Values,       \* values of characteristics
    Usernames,    \* admin logins: configured (ADMIN_USERNAME) or in a token
    Hashes,       \* password hashes
    MaxSeq,       \* bound: the ids a table may issue (0 switches it off)
    MaxEntityID   \* bound: the entity ids a media upload may name

SluggedTables == {"categories", "subcategories", "products",
                  "services", "objectTypes", "advantages"}

TableNames == SluggedTables \cup
    {"characteristics", "charValues", "productChars", "media", "admins"}

ASSUME BoundsAssumption ==
    /\ MaxSeq \in [TableNames \ {"admins"} -> Nat]
    /\ MaxEntityID \in Nat
    /\ Usernames # {} /\ Hashes # {}

VARIABLES
    d,       \* the tables, by name
    dirty    \* there are changes to save (guarded by dirtyMu)

storeVars == <<d, dirty>>

-----------------------------------------------------------------------------
(* Rows *)

Statuses == {"active", "inactive"}

StatusInputs == Statuses \cup {""}

\* Mutant: a missing status stays missing.
StatusAsGiven(status) == status

NormalizeStatus(status) == IF status = "" THEN "active" ELSE status

\* allowedEntityTypes, with the table each type names.
EntityTable == [category |-> "categories", subcategory |-> "subcategories",
                product |-> "products", service |-> "services",
                object_type |-> "objectTypes", advantage |-> "advantages"]

EntityTypes == DOMAIN EntityTable

\* The fields of a row that the rules are about.
Entry == [slug : Slugs, status : Statuses]
Subcategory == [slug : Slugs, status : Statuses, categoryID : Nat]
Product == [slug : Slugs, status : Statuses, subcategoryID : Nat]
Characteristic == [name : CharNames]
CharacteristicValue == [characteristicID : Nat, value : Values]
ProductCharacteristic == [productID : Nat, characteristicID : Nat, valueID : Nat]
Media == [entityType : EntityTypes, entityID : Nat, isMain : BOOLEAN]
StoredAdmin == [username : Usernames, passwordHash : Hashes]

\* The rows each table holds.
Row == [categories      |-> Entry,
        subcategories   |-> Subcategory,
        products        |-> Product,
        services        |-> Entry,
        objectTypes     |-> Entry,
        advantages      |-> Entry,
        characteristics |-> Characteristic,
        charValues      |-> CharacteristicValue,
        productChars    |-> ProductCharacteristic,
        media           |-> Media,
        admins          |-> StoredAdmin]

EmptyData == [n \in TableNames |-> EmptyTable]

-----------------------------------------------------------------------------
(* What the operations share *)

\* The change is made under the lock, markDirty included.
Commit(data) == d' = data /\ dirty' = TRUE

CanIssue(n) == d[n].seq < MaxSeq[n]

\* categorySlugTaken and its siblings; exceptID 0 excepts nothing.
SlugTaken(n, slug, exceptID) == Matching(d[n], [slug |-> slug]) \ {exceptID} # {}

\* Mutant: the id is compared, and the type is not.
WithoutMediaOfId(entityType, entityID) ==
    Without(d.media, Matching(d.media, [entityID |-> entityID]))

\* The media table without the pictures of an entity.
WithoutMedia(entityType, entityID) ==
    Without(d.media, Matching(d.media, [entityType |-> entityType, entityID |-> entityID]))

\* The media table m after the other pictures of exceptID's entity lose the flag.
UnsetMainExcept(m, entityType, entityID, exceptID) ==
    LET gallery == Matching(m, [entityType |-> entityType, entityID |-> entityID])
        others == {i \in gallery \ {exceptID} : m.items[i].isMain}
    IN  [m EXCEPT !.items = [i \in Ids(m) |->
            IF i \in others THEN [m.items[i] EXCEPT !.isMain = FALSE] ELSE m.items[i]]]

-----------------------------------------------------------------------------
(* Categories, subcategories, products *)

CreateCategory(slug, status) ==
    /\ CanIssue("categories")
    /\ ~SlugTaken("categories", slug, 0)
    /\ Commit([d EXCEPT !.categories =
            Insert(@, [slug |-> slug, status |-> NormalizeStatus(status)])])

\* Mutant: the slug is compared with nobody's.
UpdateCategoryAnySlug(id, slug, status) ==
    /\ id \in Ids(d.categories)
    /\ Commit([d EXCEPT !.categories =
            Put(@, id, [slug |-> slug, status |-> NormalizeStatus(status)])])

UpdateCategory(id, slug, status) ==
    /\ id \in Ids(d.categories)
    /\ ~SlugTaken("categories", slug, id)
    /\ Commit([d EXCEPT !.categories =
            Put(@, id, [slug |-> slug, status |-> NormalizeStatus(status)])])

\* Mutant: the subcategories are not looked at.
DeleteCategoryUnchecked(id) ==
    /\ id \in Ids(d.categories)
    /\ Commit([d EXCEPT !.categories = Without(@, {id}),
                        !.media = WithoutMedia("category", id)])

DeleteCategory(id) ==
    /\ id \in Ids(d.categories)
    /\ Matching(d.subcategories, [categoryID |-> id]) = {}
    /\ Commit([d EXCEPT !.categories = Without(@, {id}),
                        !.media = WithoutMedia("category", id)])

CreateSubcategory(categoryID, slug, status) ==
    /\ categoryID \in Ids(d.categories)
    /\ CanIssue("subcategories")
    /\ ~SlugTaken("subcategories", slug, 0)
    /\ Commit([d EXCEPT !.subcategories =
            Insert(@, [slug |-> slug, status |-> NormalizeStatus(status),
                       categoryID |-> categoryID])])

UpdateSubcategory(id, categoryID, slug, status) ==
    /\ id \in Ids(d.subcategories)
    /\ categoryID \in Ids(d.categories)
    /\ ~SlugTaken("subcategories", slug, id)
    /\ Commit([d EXCEPT !.subcategories =
            Put(@, id, [slug |-> slug, status |-> NormalizeStatus(status),
                        categoryID |-> categoryID])])

DeleteSubcategory(id) ==
    /\ id \in Ids(d.subcategories)
    /\ Matching(d.products, [subcategoryID |-> id]) = {}
    /\ Commit([d EXCEPT !.subcategories = Without(@, {id}),
                        !.media = WithoutMedia("subcategory", id)])

CreateProduct(subcategoryID, slug, status) ==
    /\ subcategoryID \in Ids(d.subcategories)
    /\ CanIssue("products")
    /\ ~SlugTaken("products", slug, 0)
    /\ Commit([d EXCEPT !.products =
            Insert(@, [slug |-> slug, status |-> NormalizeStatus(status),
                       subcategoryID |-> subcategoryID])])

UpdateProduct(id, subcategoryID, slug, status) ==
    /\ id \in Ids(d.products)
    /\ subcategoryID \in Ids(d.subcategories)
    /\ ~SlugTaken("products", slug, id)
    /\ Commit([d EXCEPT !.products =
            Put(@, id, [slug |-> slug, status |-> NormalizeStatus(status),
                        subcategoryID |-> subcategoryID])])

SetProductStatus(id, status) ==
    /\ id \in Ids(d.products)
    /\ status \in Statuses
    /\ Commit([d EXCEPT !.products = Put(@, id, [@.items[id] EXCEPT !.status = status])])

DeleteProduct(id) ==
    /\ id \in Ids(d.products)
    /\ Commit([d EXCEPT !.products = Without(@, {id}),
                        !.productChars = Without(@, Matching(@, [productID |-> id])),
                        !.media = WithoutMedia("product", id)])

-----------------------------------------------------------------------------
(* Services, object types and advantages: three copies of the same code *)

CreateEntry(n, slug, status) ==
    /\ CanIssue(n)
    /\ ~SlugTaken(n, slug, 0)
    /\ Commit([d EXCEPT ![n] =
            Insert(@, [slug |-> slug, status |-> NormalizeStatus(status)])])

UpdateEntry(n, id, slug, status) ==
    /\ id \in Ids(d[n])
    /\ ~SlugTaken(n, slug, id)
    /\ Commit([d EXCEPT ![n] =
            Put(@, id, [slug |-> slug, status |-> NormalizeStatus(status)])])

SetEntryStatus(n, id, status) ==
    /\ id \in Ids(d[n])
    /\ status \in Statuses
    /\ Commit([d EXCEPT ![n] = Put(@, id, [@.items[id] EXCEPT !.status = status])])

\* Mutant: the pictures stay.
DeleteEntryOnly(n, entityType, id) ==
    /\ id \in Ids(d[n])
    /\ Commit([d EXCEPT ![n] = Without(@, {id})])

DeleteEntry(n, entityType, id) ==
    /\ id \in Ids(d[n])
    /\ Commit([d EXCEPT ![n] = Without(@, {id}), !.media = WithoutMedia(entityType, id)])

CreateService(slug, status) == CreateEntry("services", slug, status)
UpdateService(id, slug, status) == UpdateEntry("services", id, slug, status)
SetServiceStatus(id, status) == SetEntryStatus("services", id, status)
DeleteService(id) == DeleteEntry("services", "service", id)

CreateObjectType(slug, status) == CreateEntry("objectTypes", slug, status)
UpdateObjectType(id, slug, status) == UpdateEntry("objectTypes", id, slug, status)
SetObjectTypeStatus(id, status) == SetEntryStatus("objectTypes", id, status)
DeleteObjectType(id) == DeleteEntry("objectTypes", "object_type", id)

CreateAdvantage(slug, status) == CreateEntry("advantages", slug, status)
UpdateAdvantage(id, slug, status) == UpdateEntry("advantages", id, slug, status)
SetAdvantageStatus(id, status) == SetEntryStatus("advantages", id, status)
DeleteAdvantage(id) == DeleteEntry("advantages", "advantage", id)

-----------------------------------------------------------------------------
(* Characteristics, their values, and the values products have *)

CreateCharacteristic(name) ==
    /\ CanIssue("characteristics")
    /\ Matching(d.characteristics, [name |-> name]) = {}
    /\ Commit([d EXCEPT !.characteristics = Insert(@, [name |-> name])])

UpdateCharacteristic(id, name) ==
    /\ id \in Ids(d.characteristics)
    /\ Matching(d.characteristics, [name |-> name]) \subseteq {id}
    /\ Commit([d EXCEPT !.characteristics = Put(@, id, [name |-> name])])

DeleteCharacteristic(id) ==
    /\ id \in Ids(d.characteristics)
    /\ Commit([d EXCEPT
            !.characteristics = Without(@, {id}),
            !.charValues = Without(@, Matching(@, [characteristicID |-> id])),
            !.productChars = Without(@, Matching(@, [characteristicID |-> id]))])

CreateCharacteristicValue(characteristicID, value) ==
    LET row == [characteristicID |-> characteristicID, value |-> value]
    IN  /\ CanIssue("charValues")
        /\ characteristicID \in Ids(d.characteristics)
        /\ Matching(d.charValues, row) = {}
        /\ Commit([d EXCEPT !.charValues = Insert(@, row)])

\* Mutant: only an unchanged value is refused.
UpdateValueUnchecked(valueID, value) ==
    /\ valueID \in Ids(d.charValues)
    /\ d.charValues.items[valueID].value # value
    /\ Commit([d EXCEPT !.charValues =
            Put(@, valueID, [@.items[valueID] EXCEPT !.value = value])])

UpdateCharacteristicValue(valueID, value) ==
    /\ valueID \in Ids(d.charValues)
    /\ LET row == [d.charValues.items[valueID] EXCEPT !.value = value]
       IN  /\ Matching(d.charValues, row) \subseteq {valueID}
           /\ Commit([d EXCEPT !.charValues = Put(@, valueID, row)])

\* Mutant: no cascade to the products that have the value.
DeleteValueOnly(valueID) ==
    /\ valueID \in Ids(d.charValues)
    /\ Commit([d EXCEPT !.charValues = Without(@, {valueID})])

DeleteCharacteristicValue(valueID) ==
    /\ valueID \in Ids(d.charValues)
    /\ Commit([d EXCEPT
            !.charValues = Without(@, {valueID}),
            !.productChars = Without(@, Matching(@, [valueID |-> valueID]))])

\* The links a product has for a characteristic; the code's loops take the
\* first of them in Go's random map order.
Links(productID, characteristicID) ==
    Matching(d.productChars,
             [productID |-> productID, characteristicID |-> characteristicID])

\* Mutant: whose value it is does not matter.
SetAnyValue(productID, characteristicID, valueID) ==
    /\ productID \in Ids(d.products)
    /\ characteristicID \in Ids(d.characteristics)
    /\ valueID \in Ids(d.charValues)
    /\ Links(productID, characteristicID) = {}
    /\ CanIssue("productChars")
    /\ Commit([d EXCEPT !.productChars =
            Insert(@, [productID |-> productID, characteristicID |-> characteristicID,
                       valueID |-> valueID])])

SetProductCharacteristic(productID, characteristicID, valueID) ==
    /\ productID \in Ids(d.products)
    /\ characteristicID \in Ids(d.characteristics)
    /\ valueID \in Ids(d.charValues)
    /\ d.charValues.items[valueID].characteristicID = characteristicID
    /\ \/ \E i \in Links(productID, characteristicID) :
            Commit([d EXCEPT !.productChars =
                    Put(@, i, [@.items[i] EXCEPT !.valueID = valueID])])
       \/ /\ Links(productID, characteristicID) = {}
          /\ CanIssue("productChars")
          /\ Commit([d EXCEPT !.productChars =
                    Insert(@, [productID |-> productID,
                               characteristicID |-> characteristicID,
                               valueID |-> valueID])])

DeleteProductCharacteristic(productID, characteristicID) ==
    \E i \in Links(productID, characteristicID) :
        Commit([d EXCEPT !.productChars = Without(@, {i})])

-----------------------------------------------------------------------------
(* Media and admins *)

\* Mutant: the old main picture keeps the flag.
AddMediaOnly(entityType, entityID, isMain) ==
    /\ CanIssue("media")
    /\ Commit([d EXCEPT !.media =
            Insert(@, [entityType |-> entityType, entityID |-> entityID,
                       isMain |-> isMain])])

\* The entity need not exist: AddMedia does not look it up.
AddMedia(entityType, entityID, isMain) ==
    LET added == Insert(d.media, [entityType |-> entityType, entityID |-> entityID,
                                  isMain |-> isMain])
    IN  /\ CanIssue("media")
        /\ Commit([d EXCEPT !.media =
                IF isMain THEN UnsetMainExcept(added, entityType, entityID, NextID(d.media))
                          ELSE added])

DeleteMedia(id) ==
    /\ id \in Ids(d.media)
    /\ Commit([d EXCEPT !.media = Without(@, {id})])

SetMainMedia(id) ==
    /\ id \in Ids(d.media)
    /\ LET m == d.media.items[id]
       IN  Commit([d EXCEPT !.media =
                UnsetMainExcept(Put(@, id, [m EXCEPT !.isMain = TRUE]),
                                m.entityType, m.entityID, id)])

SetPasswordHash(username, hash) ==
    \E i \in Matching(d.admins, [username |-> username]) :
        Commit([d EXCEPT !.admins = Put(@, i, [@.items[i] EXCEPT !.passwordHash = hash])])

\* Mutant: EnsureAdmin does not look for an admin.
AlwaysNeedsAdmin(x) == x = x

\* EnsureAdmin on data x, which main calls before anything else can run.
NeedsAdmin(x) == Ids(x.admins) = {}

\* Mutant: every start puts the configured login in place.
EnsureAdminAnew(x, username, hash) ==
    [x EXCEPT !.admins = Insert(EmptyTable, [username |-> username, passwordHash |-> hash])]

EnsureAdmin(x, username, hash) ==
    IF NeedsAdmin(x)
    THEN [x EXCEPT !.admins = Insert(@, [username |-> username, passwordHash |-> hash])]
    ELSE x

\* New and EnsureAdmin over the data `loaded` from the snapshot file.
Boot(loaded, username, hash, data, dirtyFlag) ==
    /\ data = EnsureAdmin(loaded, username, hash)
    /\ dirtyFlag = NeedsAdmin(loaded)

-----------------------------------------------------------------------------

StoreInit ==
    \E u \in Usernames, h \in Hashes : Boot(EmptyData, u, h, d, dirty)

IdsOf(n) == 1..MaxSeq[n]

CatalogNext ==
    \/ \E slug \in Slugs, status \in StatusInputs :
        \/ CreateCategory(slug, status)
        \/ \E id \in IdsOf("categories") :
            UpdateCategory(id, slug, status) \/ CreateSubcategory(id, slug, status)
        \/ \E id \in IdsOf("subcategories") :
            \/ \E c \in IdsOf("categories") : UpdateSubcategory(id, c, slug, status)
            \/ CreateProduct(id, slug, status)
            \/ \E p \in IdsOf("products") : UpdateProduct(p, id, slug, status)
    \/ \E id \in IdsOf("products"), status \in StatusInputs : SetProductStatus(id, status)
    \/ \E id \in IdsOf("categories") : DeleteCategory(id)
    \/ \E id \in IdsOf("subcategories") : DeleteSubcategory(id)
    \/ \E id \in IdsOf("products") : DeleteProduct(id)

ContentNext ==
    \/ \E slug \in Slugs, status \in StatusInputs :
        \/ CreateService(slug, status)
        \/ CreateObjectType(slug, status)
        \/ CreateAdvantage(slug, status)
        \/ \E id \in IdsOf("services") : UpdateService(id, slug, status)
        \/ \E id \in IdsOf("objectTypes") : UpdateObjectType(id, slug, status)
        \/ \E id \in IdsOf("advantages") : UpdateAdvantage(id, slug, status)
    \/ \E id \in IdsOf("services") :
        DeleteService(id) \/ \E status \in StatusInputs : SetServiceStatus(id, status)
    \/ \E id \in IdsOf("objectTypes") :
        DeleteObjectType(id) \/ \E status \in StatusInputs : SetObjectTypeStatus(id, status)
    \/ \E id \in IdsOf("advantages") :
        DeleteAdvantage(id) \/ \E status \in StatusInputs : SetAdvantageStatus(id, status)

CharacteristicsNext ==
    \/ \E name \in CharNames :
        \/ CreateCharacteristic(name)
        \/ \E id \in IdsOf("characteristics") : UpdateCharacteristic(id, name)
    \/ \E value \in Values :
        \/ \E id \in IdsOf("characteristics") : CreateCharacteristicValue(id, value)
        \/ \E v \in IdsOf("charValues") : UpdateCharacteristicValue(v, value)
    \/ \E id \in IdsOf("characteristics") : DeleteCharacteristic(id)
    \/ \E v \in IdsOf("charValues") : DeleteCharacteristicValue(v)
    \/ \E p \in IdsOf("products"), id \in IdsOf("characteristics") :
        \/ DeleteProductCharacteristic(p, id)
        \/ \E v \in IdsOf("charValues") : SetProductCharacteristic(p, id, v)

MediaNext ==
    \/ \E entityType \in EntityTypes, entityID \in 1..MaxEntityID, isMain \in BOOLEAN :
        AddMedia(entityType, entityID, isMain)
    \/ \E id \in IdsOf("media") : DeleteMedia(id) \/ SetMainMedia(id)

AdminNext == \E u \in Usernames, h \in Hashes : SetPasswordHash(u, h)

StoreNext == CatalogNext \/ ContentNext \/ CharacteristicsNext \/ MediaNext \/ AdminNext

StoreSpec == StoreInit /\ [][StoreNext]_storeVars

-----------------------------------------------------------------------------
(* What the data must satisfy, whatever sequence of calls led to it *)

\* Type: every table holds rows of its type under ids its counter issued.
WellFormed(x) ==
    /\ DOMAIN x = TableNames
    /\ \A n \in TableNames : IsTable(x[n], Row[n])

\* No reference between the tables dangles: a row is refused or swept away
\* when what it points to is missing or deleted (README.md:28, the cascades
\* of products.go:173 and characteristics.go:93).
NothingDangles(x) ==
    /\ \A i \in Ids(x.subcategories) :
        x.subcategories.items[i].categoryID \in Ids(x.categories)
    /\ \A i \in Ids(x.products) :
        x.products.items[i].subcategoryID \in Ids(x.subcategories)
    /\ \A i \in Ids(x.charValues) :
        x.charValues.items[i].characteristicID \in Ids(x.characteristics)
    /\ \A i \in Ids(x.productChars) :
        /\ x.productChars.items[i].productID \in Ids(x.products)
        /\ x.productChars.items[i].characteristicID \in Ids(x.characteristics)
        /\ x.productChars.items[i].valueID \in Ids(x.charValues)

\* The conflicts the operations refuse never come about: two equal slugs in a
\* table, two characteristics of a name, a value twice in a characteristic,
\* two values of a characteristic for a product.
KeysUnique(x) ==
    /\ \A n \in SluggedTables : UniqueOn(x[n], {"slug"})
    /\ UniqueOn(x.characteristics, {"name"})
    /\ UniqueOn(x.charValues, {"characteristicID", "value"})
    /\ UniqueOn(x.productChars, {"productID", "characteristicID"})

\* A product's value for a characteristic is a value of that characteristic.
ValuesFit(x) ==
    \A i \in Ids(x.productChars) :
        LET pc == x.productChars.items[i]
        IN  x.charValues.items[pc.valueID].characteristicID = pc.characteristicID

\* An entity has at most one main picture (media.go:74).
OneMainPicture(x) ==
    \A i, j \in Ids(x.media) :
        LET m == x.media.items[i]
            n == x.media.items[j]
        IN  m.isMain /\ n.isMain /\ m.entityType = n.entityType
              /\ m.entityID = n.entityID => i = j

\* Someone can always log in, and EnsureAdmin never adds a second login.
OneAdmin(x) == \E i \in Ids(x.admins) : Ids(x.admins) = {i}

Consistent(x) ==
    WellFormed(x) /\ NothingDangles(x) /\ KeysUnique(x) /\ ValuesFit(x) /\ OneMainPicture(x)

-----------------------------------------------------------------------------
(* Properties *)

\* Type invariant: the tables hold rows of their types under issued ids.
StoreTypeOK == WellFormed(d) /\ dirty \in BOOLEAN

\* No sequence of creations, moves and deletions leaves a dangling reference.
References == NothingDangles(d)

\* Updates and upserts included, no two rows share a key.
Keys == KeysUnique(d)

\* Through value edits, cascades and upserts a product never shows a value
\* that belongs to another characteristic.
ValuesMatch == ValuesFit(d)

\* Uploads and SetMainMedia leave at most one main picture per entity.
MainPictures == OneMainPicture(d)

\* An entity deleted by a step takes all of its pictures with it, so no later
\* entity or backup shows them.
MediaGoneWithEntity ==
    [][\A t \in EntityTypes : LET n == EntityTable[t] IN
        \A id \in Ids(d[n]) \ Ids(d'[n]) :
            Matching(d'.media, [entityType |-> t, entityID |-> id]) = {}]_storeVars

\* For the image files the store is no more than module Pictures says: other
\* operations touch neither entities nor the owners of pictures.
Gallery == INSTANCE Pictures WITH
    Types <- EntityTypes,
    live <- [t \in EntityTypes |-> Ids(d[EntityTable[t]])],
    issued <- [t \in EntityTypes |-> d[EntityTable[t]].seq],
    last <- d.media.seq,
    owner <- [i \in Ids(d.media) |->
                 <<d.media.items[i].entityType, d.media.items[i].entityID>>]

ImplementsPictures == Gallery!Spec

=============================================================================
