---------------------------- MODULE StoreProofs ----------------------------
(***************************************************************************)
(* Store keeps its data consistent, for every bound and every set of       *)
(* slugs, names, values and logins.  Consistent is inductive as it stands: *)
(* the proof has one lemma per operation, which rest on what an insertion, *)
(* an update or a deletion in one table does to the whole data.  At the    *)
(* end, what each deletion of an entity does to its pictures.              *)
(***************************************************************************)
EXTENDS Store, TablesProofs

USE DEF Subcategory, Product, Characteristic, CharacteristicValue, ProductCharacteristic,
        Media, StoredAdmin

\* Only the tables of S differ in y.
Changed(x, y, S) == DOMAIN y = TableNames /\ \A m \in TableNames \ S : y[m] = x[m]

\* What the row of table n refers to exists in x.
KeyRefs(x, n, row) ==
    /\ n = "subcategories" => row.categoryID \in Ids(x.categories)
    /\ n = "products" => row.subcategoryID \in Ids(x.subcategories)

\* A new row whose slug is free and whose parent exists.
LEMMA SluggedInsert ==
    ASSUME NEW x, NEW y, Consistent(x),
           NEW n \in SluggedTables, NEW row \in Row[n],
           Changed(x, y, {n}), y[n] = Insert(x[n], row), KeyRefs(x, n, row),
           \A i \in Ids(x[n]) : x[n].items[i].slug # row.slug
    PROVE  Consistent(y)
<1>1. IsTable(x[n], Row[n]) BY DEF Consistent, WellFormed, TableNames
<1>2. /\ IsTable(y[n], Row[n])
      /\ Ids(y[n]) = Ids(x[n]) \cup {NextID(x[n])}
      /\ y[n].items[NextID(x[n])] = row
      /\ \A i \in Ids(x[n]) : y[n].items[i] = x[n].items[i]
  BY <1>1, InsertFacts
<1>3. WellFormed(y) BY <1>2 DEF Consistent, WellFormed, Changed
<1>4. NothingDangles(y)
  <2>1. /\ Ids(x.categories) \subseteq Ids(y.categories)
        /\ Ids(x.subcategories) \subseteq Ids(y.subcategories)
        /\ Ids(x.products) \subseteq Ids(y.products)
        /\ x.characteristics = y.characteristics
        /\ x.charValues = y.charValues
        /\ x.productChars = y.productChars
    BY <1>2 DEF Changed, TableNames, SluggedTables
  <2>2. \A i \in Ids(y.subcategories) :
            y.subcategories.items[i].categoryID \in Ids(y.categories)
    BY <1>2, <2>1 DEF Changed, TableNames, SluggedTables, KeyRefs, Consistent, NothingDangles
  <2>3. \A i \in Ids(y.products) :
            y.products.items[i].subcategoryID \in Ids(y.subcategories)
    BY <1>2, <2>1 DEF Changed, TableNames, SluggedTables, KeyRefs, Consistent, NothingDangles
  <2> QED BY <2>1, <2>2, <2>3 DEF Consistent, NothingDangles
<1>5. KeysUnique(y)
  <2>1. UniqueOn(y[n], {"slug"})
    BY <1>1, InsertUnique DEF Consistent, KeysUnique
  <2> QED BY <2>1 DEF Consistent, KeysUnique, Changed, TableNames, SluggedTables
<1>6. ValuesFit(y) BY DEF Consistent, ValuesFit, Changed, TableNames, SluggedTables
<1>7. OneMainPicture(y) BY DEF Consistent, OneMainPicture, Changed, TableNames, SluggedTables
<1> QED BY <1>3, <1>4, <1>5, <1>6, <1>7 DEF Consistent

\* A row replaced by one whose slug is nobody else's and whose parent exists.
LEMMA SluggedPut ==
    ASSUME NEW x, NEW y, Consistent(x),
           NEW n \in SluggedTables, NEW id \in Ids(x[n]), NEW row \in Row[n],
           Changed(x, y, {n}), y[n] = Put(x[n], id, row), KeyRefs(x, n, row),
           \A i \in Ids(x[n]) \ {id} : x[n].items[i].slug # row.slug
    PROVE  Consistent(y)
<1>1. IsTable(x[n], Row[n]) BY DEF Consistent, WellFormed, TableNames
<1>2. /\ IsTable(y[n], Row[n])
      /\ Ids(y[n]) = Ids(x[n])
      /\ y[n].items[id] = row
      /\ \A i \in Ids(x[n]) \ {id} : y[n].items[i] = x[n].items[i]
  BY <1>1, PutFacts
<1>3. WellFormed(y) BY <1>2 DEF Consistent, WellFormed, Changed
<1>4. NothingDangles(y)
  <2>1. \A m \in TableNames : Ids(y[m]) = Ids(x[m])
    BY <1>2 DEF Changed
  <2>2. \A i \in Ids(y.subcategories) :
            y.subcategories.items[i].categoryID \in Ids(y.categories)
    BY <1>2, <2>1 DEF Changed, TableNames, SluggedTables, KeyRefs, Consistent, NothingDangles
  <2>3. \A i \in Ids(y.products) :
            y.products.items[i].subcategoryID \in Ids(y.subcategories)
    BY <1>2, <2>1 DEF Changed, TableNames, SluggedTables, KeyRefs, Consistent, NothingDangles
  <2>4. /\ x.charValues = y.charValues
        /\ x.productChars = y.productChars
        /\ x.characteristics = y.characteristics
    BY DEF Changed, TableNames, SluggedTables
  <2>5. Ids(y.products) = Ids(x.products)
    BY <2>1 DEF TableNames, SluggedTables
  <2> QED BY <2>2, <2>3, <2>4, <2>5 DEF Consistent, NothingDangles
<1>5. KeysUnique(y)
  <2>1. UniqueOn(y[n], {"slug"})
    BY <1>1, PutUnique DEF Consistent, KeysUnique
  <2> QED BY <2>1 DEF Consistent, KeysUnique, Changed, TableNames, SluggedTables
<1>6. ValuesFit(y) BY DEF Consistent, ValuesFit, Changed, TableNames, SluggedTables
<1>7. OneMainPicture(y) BY DEF Consistent, OneMainPicture, Changed, TableNames, SluggedTables
<1> QED BY <1>3, <1>4, <1>5, <1>6, <1>7 DEF Consistent

\* Table u is t without some rows.
Shrinks(t, u, R) ==
    /\ IsTable(u, R)
    /\ Ids(u) \subseteq Ids(t)
    /\ \A i \in Ids(u) : u.items[i] = t.items[i]

\* A row nothing refers to deleted, with some of the media.
LEMMA SluggedDelete ==
    ASSUME NEW x, NEW y, Consistent(x),
           NEW n \in SluggedTables, NEW id,
           Changed(x, y, {n, "media", "productChars"}),
           y[n] = Without(x[n], {id}),
           Shrinks(x.media, y.media, Row.media),
           Shrinks(x.productChars, y.productChars, Row.productChars),
           n = "categories" =>
                \A i \in Ids(x.subcategories) : x.subcategories.items[i].categoryID # id,
           n = "subcategories" =>
                \A i \in Ids(x.products) : x.products.items[i].subcategoryID # id,
           n = "products" =>
                \A i \in Ids(y.productChars) : y.productChars.items[i].productID # id
    PROVE  Consistent(y)
<1>1. \A m \in TableNames : IsTable(x[m], Row[m]) BY DEF Consistent, WellFormed
<1>2. /\ IsTable(y[n], Row[n])
      /\ Ids(y[n]) = Ids(x[n]) \ {id}
      /\ \A i \in Ids(y[n]) : y[n].items[i] = x[n].items[i]
  BY <1>1, WithoutFacts DEF TableNames
<1>3. /\ IsTable(y.media, Row.media)
      /\ Ids(y.media) \subseteq Ids(x.media)
      /\ \A i \in Ids(y.media) : y.media.items[i] = x.media.items[i]
  BY DEF Shrinks
<1>4. /\ IsTable(y.productChars, Row.productChars)
      /\ Ids(y.productChars) \subseteq Ids(x.productChars)
      /\ \A i \in Ids(y.productChars) : y.productChars.items[i] = x.productChars.items[i]
  BY DEF Shrinks
<1>5. WellFormed(y) BY <1>2, <1>3, <1>4 DEF Consistent, WellFormed, Changed
<1>6. NothingDangles(y)
  <2>1. \A i \in Ids(y.subcategories) :
            y.subcategories.items[i].categoryID \in Ids(y.categories)
    <3>1. \A i \in Ids(x.subcategories) :
            x.subcategories.items[i].categoryID \in Ids(x.categories)
      BY DEF Consistent, NothingDangles
    <3>2. CASE n = "categories"
      <4>1. y.subcategories = x.subcategories BY <3>2 DEF Changed, TableNames, SluggedTables
      <4> QED BY <3>1, <3>2, <4>1, <1>2
    <3>3. CASE n = "subcategories"
      <4>1. y.categories = x.categories BY <3>3 DEF Changed, TableNames, SluggedTables
      <4> QED BY <3>1, <3>3, <4>1, <1>2
    <3>4. CASE n \notin {"categories", "subcategories"}
      <4>1. y.categories = x.categories /\ y.subcategories = x.subcategories
        BY <3>4 DEF Changed, TableNames, SluggedTables
      <4> QED BY <3>1, <4>1
    <3> QED BY <3>2, <3>3, <3>4
  <2>2. \A i \in Ids(y.products) :
            y.products.items[i].subcategoryID \in Ids(y.subcategories)
    <3>1. \A i \in Ids(x.products) :
            x.products.items[i].subcategoryID \in Ids(x.subcategories)
      BY DEF Consistent, NothingDangles
    <3>2. CASE n = "subcategories"
      <4>1. y.products = x.products BY <3>2 DEF Changed, TableNames, SluggedTables
      <4> QED BY <3>1, <3>2, <4>1, <1>2
    <3>3. CASE n = "products"
      <4>1. y.subcategories = x.subcategories BY <3>3 DEF Changed, TableNames, SluggedTables
      <4> QED BY <3>1, <3>3, <4>1, <1>2
    <3>4. CASE n \notin {"subcategories", "products"}
      <4>1. y.subcategories = x.subcategories /\ y.products = x.products
        BY <3>4 DEF Changed, TableNames, SluggedTables
      <4> QED BY <3>1, <4>1
    <3> QED BY <3>2, <3>3, <3>4
  <2>3. \A i \in Ids(y.productChars) :
            y.productChars.items[i].productID \in Ids(y.products)
    BY <1>2, <1>4 DEF Changed, TableNames, SluggedTables, Consistent, NothingDangles
  <2>4. /\ x.charValues = y.charValues
        /\ x.characteristics = y.characteristics
    BY DEF Changed, TableNames, SluggedTables
  <2> QED BY <1>4, <2>1, <2>2, <2>3, <2>4 DEF Consistent, NothingDangles
<1>7. KeysUnique(y)
  <2>1. UniqueOn(y[n], {"slug"})
    BY <1>1, WithoutUnique DEF Consistent, KeysUnique, TableNames
  <2>2. UniqueOn(y.productChars, {"productID", "characteristicID"})
    BY <1>4 DEF Consistent, KeysUnique, UniqueOn
  <2> QED BY <2>1, <2>2 DEF Consistent, KeysUnique, Changed, TableNames, SluggedTables
<1>8. ValuesFit(y)
  BY <1>4 DEF Consistent, ValuesFit, Changed, TableNames, SluggedTables
<1>9. OneMainPicture(y)
  BY <1>3 DEF Consistent, OneMainPicture
<1> QED BY <1>5, <1>6, <1>7, <1>8, <1>9 DEF Consistent

\* A change confined to the tables of characteristics.
LEMMA CharacteristicsFrame ==
    ASSUME NEW x, NEW y, Consistent(x), WellFormed(y),
           Changed(x, y, {"characteristics", "charValues", "productChars"}),
           \A i \in Ids(y.charValues) :
                y.charValues.items[i].characteristicID \in Ids(y.characteristics),
           \A i \in Ids(y.productChars) :
                /\ y.productChars.items[i].productID \in Ids(x.products)
                /\ y.productChars.items[i].characteristicID \in Ids(y.characteristics)
                /\ y.productChars.items[i].valueID \in Ids(y.charValues),
           UniqueOn(y.characteristics, {"name"}),
           UniqueOn(y.charValues, {"characteristicID", "value"}),
           UniqueOn(y.productChars, {"productID", "characteristicID"}),
           ValuesFit(y)
    PROVE  Consistent(y)
<1>1. /\ \A n \in SluggedTables : y[n] = x[n]
      /\ y.media = x.media
      /\ y.categories = x.categories
      /\ y.subcategories = x.subcategories
      /\ y.products = x.products
  BY DEF Changed, TableNames, SluggedTables
<1>2. NothingDangles(y) BY <1>1 DEF Consistent, NothingDangles
<1>3. KeysUnique(y) BY <1>1 DEF Consistent, KeysUnique
<1>4. OneMainPicture(y) BY <1>1 DEF Consistent, OneMainPicture
<1> QED BY <1>2, <1>3, <1>4 DEF Consistent

\* A change confined to the media and the admins.
LEMMA MediaFrame ==
    ASSUME NEW x, NEW y, Consistent(x), WellFormed(y),
           Changed(x, y, {"media", "admins"}), OneMainPicture(y)
    PROVE  Consistent(y)
<1>1. /\ \A n \in SluggedTables : y[n] = x[n]
      /\ y.categories = x.categories
      /\ y.subcategories = x.subcategories
      /\ y.products = x.products
      /\ y.characteristics = x.characteristics
      /\ y.charValues = x.charValues
      /\ y.productChars = x.productChars
  BY DEF Changed, TableNames, SluggedTables
<1> QED BY <1>1 DEF Consistent, NothingDangles, KeysUnique, ValuesFit

-----------------------------------------------------------------------------
\* Matching with each of the keys the operations use.
LEMMA MatchingFacts ==
    ASSUME NEW t
    PROVE  /\ \A a : Matching(t, [slug |-> a]) = {i \in Ids(t) : t.items[i].slug = a}
           /\ \A a : Matching(t, [name |-> a]) = {i \in Ids(t) : t.items[i].name = a}
           /\ \A a : Matching(t, [categoryID |-> a]) = {i \in Ids(t) : t.items[i].categoryID = a}
           /\ \A a : Matching(t, [subcategoryID |-> a]) =
                    {i \in Ids(t) : t.items[i].subcategoryID = a}
           /\ \A a : Matching(t, [productID |-> a]) = {i \in Ids(t) : t.items[i].productID = a}
           /\ \A a : Matching(t, [characteristicID |-> a]) =
                    {i \in Ids(t) : t.items[i].characteristicID = a}
           /\ \A a : Matching(t, [valueID |-> a]) = {i \in Ids(t) : t.items[i].valueID = a}
           /\ \A a : Matching(t, [username |-> a]) = {i \in Ids(t) : t.items[i].username = a}
           /\ \A a, b : Matching(t, [productID |-> a, characteristicID |-> b]) =
                    {i \in Ids(t) : t.items[i].productID = a /\ t.items[i].characteristicID = b}
           /\ \A a, b : Matching(t, [characteristicID |-> a, value |-> b]) =
                    {i \in Ids(t) : t.items[i].characteristicID = a /\ t.items[i].value = b}
           /\ \A a, b : Matching(t, [entityType |-> a, entityID |-> b]) =
                    {i \in Ids(t) : t.items[i].entityType = a /\ t.items[i].entityID = b}
  BY DEF Matching

\* Ids start at 1: 0 excepts nothing in SlugTaken.
LEMMA ZeroUnused ==
    ASSUME NEW x, WellFormed(x), NEW n \in TableNames
    PROVE  0 \notin Ids(x[n])
<1>1. IsTable(x[n], Row[n]) BY DEF WellFormed
<1> QED BY <1>1 DEF IsTable

\* A slug the operation found free.
LEMMA SlugFree ==
    ASSUME NEW n \in SluggedTables, NEW slug, NEW id, ~SlugTaken(n, slug, id)
    PROVE  \A i \in Ids(d[n]) \ {id} : d[n].items[i].slug # slug
  BY MatchingFacts DEF SlugTaken

\* Statuses are stored normalized.
LEMMA StatusNormalized == \A status \in StatusInputs : NormalizeStatus(status) \in Statuses
  BY DEF StatusInputs, Statuses, NormalizeStatus

-----------------------------------------------------------------------------
(* One lemma per operation: it leaves the data consistent *)

\* A category is inserted under a slug no category has (categories.go:79).
LEMMA CreateCategoryStep ==
    ASSUME Consistent(d), NEW slug \in Slugs, NEW status \in StatusInputs,
           CreateCategory(slug, status)
    PROVE  Consistent(d')
<1> DEFINE row == [slug |-> slug, status |-> NormalizeStatus(status)]
<1>1. row \in Row["categories"]
  BY StatusNormalized DEF Row, Entry
<1>2. /\ Changed(d, d', {"categories"})
      /\ d'["categories"] = Insert(d["categories"], row)
  BY DEF Consistent, WellFormed, CreateCategory, Commit, Changed, TableNames, SluggedTables
<1>3. \A i \in Ids(d["categories"]) : d["categories"].items[i].slug # row.slug
  BY SlugFree, ZeroUnused DEF CreateCategory, Consistent, TableNames, SluggedTables
<1>4. KeyRefs(d, "categories", row) BY DEF KeyRefs, CreateCategory
<1> QED BY <1>1, <1>2, <1>3, <1>4, SluggedInsert DEF SluggedTables

\* A category is replaced under a slug no other category has.
LEMMA UpdateCategoryStep ==
    ASSUME Consistent(d), NEW id, NEW slug \in Slugs, NEW status \in StatusInputs,
           UpdateCategory(id, slug, status)
    PROVE  Consistent(d')
<1> DEFINE row == [slug |-> slug, status |-> NormalizeStatus(status)]
<1>1. row \in Row["categories"]
  BY StatusNormalized DEF Row, Entry
<1>2. /\ id \in Ids(d["categories"])
      /\ Changed(d, d', {"categories"})
      /\ d'["categories"] = Put(d["categories"], id, row)
  BY DEF Consistent, WellFormed, UpdateCategory, Commit, Changed, TableNames, SluggedTables
<1>3. \A i \in Ids(d["categories"]) \ {id} : d["categories"].items[i].slug # row.slug
  BY SlugFree DEF UpdateCategory, SluggedTables
<1>4. KeyRefs(d, "categories", row) BY DEF KeyRefs, UpdateCategory
<1> QED BY <1>1, <1>2, <1>3, <1>4, SluggedPut DEF SluggedTables

\* A subcategory is inserted under an existing category.
LEMMA CreateSubcategoryStep ==
    ASSUME Consistent(d), NEW categoryID \in Nat, NEW slug \in Slugs, NEW status \in StatusInputs,
           CreateSubcategory(categoryID, slug, status)
    PROVE  Consistent(d')
<1> DEFINE row == [slug |-> slug, status |-> NormalizeStatus(status),
                  categoryID |-> categoryID]
<1>1. row \in Row["subcategories"]
  BY StatusNormalized DEF Row, Entry
<1>2. /\ Changed(d, d', {"subcategories"})
      /\ d'["subcategories"] = Insert(d["subcategories"], row)
  BY DEF Consistent, WellFormed, CreateSubcategory, Commit, Changed, TableNames, SluggedTables
<1>3. \A i \in Ids(d["subcategories"]) : d["subcategories"].items[i].slug # row.slug
  BY SlugFree, ZeroUnused DEF CreateSubcategory, Consistent, TableNames, SluggedTables
<1>4. KeyRefs(d, "subcategories", row) BY DEF KeyRefs, CreateSubcategory
<1> QED BY <1>1, <1>2, <1>3, <1>4, SluggedInsert DEF SluggedTables

\* A subcategory may move to another existing category.
LEMMA UpdateSubcategoryStep ==
    ASSUME Consistent(d), NEW id, NEW categoryID \in Nat, NEW slug \in Slugs, NEW status \in StatusInputs,
           UpdateSubcategory(id, categoryID, slug, status)
    PROVE  Consistent(d')
<1> DEFINE row == [slug |-> slug, status |-> NormalizeStatus(status),
                  categoryID |-> categoryID]
<1>1. row \in Row["subcategories"]
  BY StatusNormalized DEF Row, Entry
<1>2. /\ id \in Ids(d["subcategories"])
      /\ Changed(d, d', {"subcategories"})
      /\ d'["subcategories"] = Put(d["subcategories"], id, row)
  BY DEF Consistent, WellFormed, UpdateSubcategory, Commit, Changed, TableNames, SluggedTables
<1>3. \A i \in Ids(d["subcategories"]) \ {id} : d["subcategories"].items[i].slug # row.slug
  BY SlugFree DEF UpdateSubcategory, SluggedTables
<1>4. KeyRefs(d, "subcategories", row) BY DEF KeyRefs, UpdateSubcategory
<1> QED BY <1>1, <1>2, <1>3, <1>4, SluggedPut DEF SluggedTables

\* A product is inserted under an existing subcategory.
LEMMA CreateProductStep ==
    ASSUME Consistent(d), NEW subcategoryID \in Nat, NEW slug \in Slugs, NEW status \in StatusInputs,
           CreateProduct(subcategoryID, slug, status)
    PROVE  Consistent(d')
<1> DEFINE row == [slug |-> slug, status |-> NormalizeStatus(status),
                  subcategoryID |-> subcategoryID]
<1>1. row \in Row["products"]
  BY StatusNormalized DEF Row, Entry
<1>2. /\ Changed(d, d', {"products"})
      /\ d'["products"] = Insert(d["products"], row)
  BY DEF Consistent, WellFormed, CreateProduct, Commit, Changed, TableNames, SluggedTables
<1>3. \A i \in Ids(d["products"]) : d["products"].items[i].slug # row.slug
  BY SlugFree, ZeroUnused DEF CreateProduct, Consistent, TableNames, SluggedTables
<1>4. KeyRefs(d, "products", row) BY DEF KeyRefs, CreateProduct
<1> QED BY <1>1, <1>2, <1>3, <1>4, SluggedInsert DEF SluggedTables

\* A product may move to another existing subcategory.
LEMMA UpdateProductStep ==
    ASSUME Consistent(d), NEW id, NEW subcategoryID \in Nat, NEW slug \in Slugs, NEW status \in StatusInputs,
           UpdateProduct(id, subcategoryID, slug, status)
    PROVE  Consistent(d')
<1> DEFINE row == [slug |-> slug, status |-> NormalizeStatus(status),
                  subcategoryID |-> subcategoryID]
<1>1. row \in Row["products"]
  BY StatusNormalized DEF Row, Entry
<1>2. /\ id \in Ids(d["products"])
      /\ Changed(d, d', {"products"})
      /\ d'["products"] = Put(d["products"], id, row)
  BY DEF Consistent, WellFormed, UpdateProduct, Commit, Changed, TableNames, SluggedTables
<1>3. \A i \in Ids(d["products"]) \ {id} : d["products"].items[i].slug # row.slug
  BY SlugFree DEF UpdateProduct, SluggedTables
<1>4. KeyRefs(d, "products", row) BY DEF KeyRefs, UpdateProduct
<1> QED BY <1>1, <1>2, <1>3, <1>4, SluggedPut DEF SluggedTables

\* Only the status of the product changes.
LEMMA SetProductStatusStep ==
    ASSUME Consistent(d), NEW id, NEW status, SetProductStatus(id, status)
    PROVE  Consistent(d')
<1> DEFINE row == [d["products"].items[id] EXCEPT !.status = status]
<1>1. id \in Ids(d["products"]) /\ status \in Statuses BY DEF SetProductStatus
<1>2. d["products"].items[id] \in Row["products"]
  BY <1>1 DEF Consistent, WellFormed, IsTable, TableNames, SluggedTables
<1>3. /\ row \in Row["products"]
      /\ row.slug = d["products"].items[id].slug
      /\ row.subcategoryID = d["products"].items[id].subcategoryID
  BY <1>1, <1>2 DEF Row
<1>4. /\ Changed(d, d', {"products"})
      /\ d'["products"] = Put(d["products"], id, row)
  BY DEF Consistent, WellFormed, SetProductStatus, Commit, Changed, TableNames, SluggedTables
<1>5. \A i \in Ids(d["products"]) \ {id} : d["products"].items[i].slug # row.slug
  BY <1>1, <1>3 DEF Consistent, KeysUnique, UniqueOn, SluggedTables
<1>6. KeyRefs(d, "products", row)
  BY <1>1, <1>3 DEF Consistent, NothingDangles, KeyRefs
<1> QED BY <1>1, <1>3, <1>4, <1>5, <1>6, SluggedPut DEF SluggedTables

\* Deleting rows, or none, shrinks a table.
LEMMA DeletionShrinks ==
    ASSUME NEW R, NEW t, IsTable(t, R)
    PROVE  Shrinks(t, t, R) /\ \A S : Shrinks(t, Without(t, S), R)
  BY WithoutFacts DEF Shrinks

\* Only a category without subcategories goes, with its pictures.
LEMMA DeleteCategoryStep ==
    ASSUME Consistent(d), NEW id, DeleteCategory(id)
    PROVE  Consistent(d')
<1>1. \A m \in TableNames : IsTable(d[m], Row[m]) BY DEF Consistent, WellFormed
<1>2. /\ Changed(d, d', {"categories", "media", "productChars"})
      /\ d'["categories"] = Without(d["categories"], {id})
      /\ d'.media = WithoutMedia("category", id)
      /\ d'.productChars = d.productChars
  BY DEF DeleteCategory, Commit, Consistent, WellFormed, Changed, TableNames, SluggedTables
<1>3. /\ Shrinks(d.media, d'.media, Row.media)
      /\ Shrinks(d.productChars, d'.productChars, Row.productChars)
  BY <1>1, <1>2, DeletionShrinks DEF WithoutMedia, TableNames
<1>4. \A i \in Ids(d.subcategories) : d.subcategories.items[i].categoryID # id
  BY MatchingFacts DEF DeleteCategory
<1> QED BY <1>2, <1>3, <1>4, SluggedDelete DEF SluggedTables

\* Only a subcategory without products goes, with its pictures.
LEMMA DeleteSubcategoryStep ==
    ASSUME Consistent(d), NEW id, DeleteSubcategory(id)
    PROVE  Consistent(d')
<1>1. \A m \in TableNames : IsTable(d[m], Row[m]) BY DEF Consistent, WellFormed
<1>2. /\ Changed(d, d', {"subcategories", "media", "productChars"})
      /\ d'["subcategories"] = Without(d["subcategories"], {id})
      /\ d'.media = WithoutMedia("subcategory", id)
      /\ d'.productChars = d.productChars
  BY DEF DeleteSubcategory, Commit, Consistent, WellFormed, Changed, TableNames, SluggedTables
<1>3. /\ Shrinks(d.media, d'.media, Row.media)
      /\ Shrinks(d.productChars, d'.productChars, Row.productChars)
  BY <1>1, <1>2, DeletionShrinks DEF WithoutMedia, TableNames
<1>4. \A i \in Ids(d.products) : d.products.items[i].subcategoryID # id
  BY MatchingFacts DEF DeleteSubcategory
<1> QED BY <1>2, <1>3, <1>4, SluggedDelete DEF SluggedTables

\* A product goes with its links and its pictures.
LEMMA DeleteProductStep ==
    ASSUME Consistent(d), NEW id, DeleteProduct(id)
    PROVE  Consistent(d')
<1>1. \A m \in TableNames : IsTable(d[m], Row[m]) BY DEF Consistent, WellFormed
<1>2. /\ Changed(d, d', {"products", "media", "productChars"})
      /\ d'["products"] = Without(d["products"], {id})
      /\ d'.media = WithoutMedia("product", id)
      /\ d'.productChars = Without(d.productChars, Matching(d.productChars, [productID |-> id]))
  BY DEF DeleteProduct, Commit, Consistent, WellFormed, Changed, TableNames, SluggedTables
<1>3. /\ Shrinks(d.media, d'.media, Row.media)
      /\ Shrinks(d.productChars, d'.productChars, Row.productChars)
  BY <1>1, <1>2, DeletionShrinks DEF WithoutMedia, TableNames
<1>4. \A i \in Ids(d'.productChars) : d'.productChars.items[i].productID # id
  <2>1. IsTable(d.productChars, Row.productChars) BY <1>1 DEF TableNames
  <2> QED BY <2>1, <1>2, WithoutFacts, MatchingFacts
<1> QED BY <1>2, <1>3, <1>4, SluggedDelete DEF SluggedTables

-----------------------------------------------------------------------------
(* Services, object types, advantages *)

EntryTables == {"services", "objectTypes", "advantages"}

\* A service, object type or advantage is inserted under a free slug.
LEMMA CreateEntryStep ==
    ASSUME Consistent(d), NEW n \in EntryTables, NEW slug \in Slugs,
           NEW status \in StatusInputs, CreateEntry(n, slug, status)
    PROVE  Consistent(d')
<1> DEFINE row == [slug |-> slug, status |-> NormalizeStatus(status)]
<1>1. n \in SluggedTables BY DEF EntryTables, SluggedTables
<1>2. row \in Row[n]
  <2>1. Row[n] = Entry BY DEF Row, EntryTables
  <2>2. row \in Entry BY StatusNormalized DEF Entry
  <2> QED BY <2>1, <2>2
<1>3. Changed(d, d', {n}) /\ d'[n] = Insert(d[n], row)
  BY <1>1 DEF Consistent, WellFormed, CreateEntry, Commit, Changed, TableNames
<1>4. \A i \in Ids(d[n]) : d[n].items[i].slug # row.slug
  BY <1>1, SlugFree, ZeroUnused DEF CreateEntry, Consistent, TableNames
<1>5. KeyRefs(d, n, row) BY DEF KeyRefs, EntryTables
<1> QED BY <1>1, <1>2, <1>3, <1>4, <1>5, SluggedInsert

\* A service, object type or advantage is replaced, its slug nobody else's.
LEMMA UpdateEntryStep ==
    ASSUME Consistent(d), NEW n \in EntryTables, NEW id, NEW slug \in Slugs,
           NEW status \in StatusInputs, UpdateEntry(n, id, slug, status)
    PROVE  Consistent(d')
<1> DEFINE row == [slug |-> slug, status |-> NormalizeStatus(status)]
<1>1. n \in SluggedTables BY DEF EntryTables, SluggedTables
<1>2. row \in Row[n]
  <2>1. Row[n] = Entry BY DEF Row, EntryTables
  <2>2. row \in Entry BY StatusNormalized DEF Entry
  <2> QED BY <2>1, <2>2
<1>3. id \in Ids(d[n]) /\ Changed(d, d', {n}) /\ d'[n] = Put(d[n], id, row)
  BY <1>1 DEF Consistent, WellFormed, UpdateEntry, Commit, Changed, TableNames
<1>4. \A i \in Ids(d[n]) \ {id} : d[n].items[i].slug # row.slug
  BY <1>1, SlugFree DEF UpdateEntry
<1>5. KeyRefs(d, n, row) BY DEF KeyRefs, EntryTables
<1> QED BY <1>1, <1>2, <1>3, <1>4, <1>5, SluggedPut

\* Only the status of the entry changes.
LEMMA SetEntryStatusStep ==
    ASSUME Consistent(d), NEW n \in EntryTables, NEW id, NEW status,
           SetEntryStatus(n, id, status)
    PROVE  Consistent(d')
<1> DEFINE row == [d[n].items[id] EXCEPT !.status = status]
<1>1. n \in SluggedTables BY DEF EntryTables, SluggedTables
<1>2. id \in Ids(d[n]) /\ status \in Statuses BY DEF SetEntryStatus
<1>3. d[n].items[id] \in Row[n] /\ Row[n] = Entry
  <2>1. Row[n] = Entry BY DEF Row, EntryTables
  <2>2. IsTable(d[n], Row[n]) BY <1>1 DEF Consistent, WellFormed, TableNames
  <2> QED BY <1>2, <2>1, <2>2 DEF IsTable
<1>4. row \in Row[n] /\ row.slug = d[n].items[id].slug
  BY <1>2, <1>3 DEF Entry
<1>5. Changed(d, d', {n}) /\ d'[n] = Put(d[n], id, row)
  BY <1>1 DEF Consistent, WellFormed, SetEntryStatus, Commit, Changed, TableNames
<1>6. \A i \in Ids(d[n]) \ {id} : d[n].items[i].slug # row.slug
  BY <1>1, <1>2, <1>4 DEF Consistent, KeysUnique, UniqueOn
<1>7. KeyRefs(d, n, row) BY DEF KeyRefs, EntryTables
<1> QED BY <1>1, <1>2, <1>4, <1>5, <1>6, <1>7, SluggedPut

\* Nothing but pictures refers to an entry, and those go with it.
LEMMA DeleteEntryStep ==
    ASSUME Consistent(d), NEW n \in EntryTables, NEW entityType, NEW id,
           DeleteEntry(n, entityType, id)
    PROVE  Consistent(d')
<1>1. \A m \in TableNames : IsTable(d[m], Row[m]) BY DEF Consistent, WellFormed
<1>2. n \in SluggedTables /\ n # "media" /\ n # "productChars"
  BY DEF EntryTables, SluggedTables
<1>3. /\ Changed(d, d', {n, "media", "productChars"})
      /\ d'[n] = Without(d[n], {id})
      /\ d'.media = WithoutMedia(entityType, id)
      /\ d'.productChars = d.productChars
  BY <1>2 DEF DeleteEntry, Commit, Consistent, WellFormed, Changed, TableNames, SluggedTables
<1>4. /\ Shrinks(d.media, d'.media, Row.media)
      /\ Shrinks(d.productChars, d'.productChars, Row.productChars)
  BY <1>1, <1>3, DeletionShrinks DEF WithoutMedia, TableNames
<1> QED BY <1>2, <1>3, <1>4, SluggedDelete DEF EntryTables

-----------------------------------------------------------------------------
(* Characteristics *)

\* A characteristic is inserted under a name no other has.
LEMMA CreateCharacteristicStep ==
    ASSUME Consistent(d), NEW name \in CharNames, CreateCharacteristic(name)
    PROVE  Consistent(d')
<1> DEFINE row == [name |-> name]
           t == d["characteristics"]
           u == d'["characteristics"]
<1>1. \A m \in TableNames : IsTable(d[m], Row[m]) BY DEF Consistent, WellFormed
<1>2. /\ Changed(d, d', {"characteristics"})
      /\ u = Insert(t, row)
  BY DEF CreateCharacteristic, Commit, Consistent, WellFormed, Changed, TableNames
<1>3. IsTable(t, Row["characteristics"]) /\ row \in Row["characteristics"]
  BY <1>1 DEF Row, TableNames
<1>4. IsTable(u, Row["characteristics"]) /\ Ids(t) \subseteq Ids(u)
  BY <1>2, <1>3, InsertFacts
<1>5. WellFormed(d') BY <1>1, <1>2, <1>4 DEF WellFormed, Changed
<1>6. UniqueOn(u, {"name"})
  <2>1. UniqueOn(t, {"name"}) BY DEF Consistent, KeysUnique
  <2>2. \A i \in Ids(t) : t.items[i].name # name
    BY MatchingFacts DEF CreateCharacteristic
  <2> QED BY <1>2, <1>3, <2>1, <2>2, InsertUnique
<1>7. d'.charValues = d.charValues /\ d'.productChars = d.productChars
  BY <1>2 DEF Changed, TableNames
<1>8. Changed(d, d', {"characteristics", "charValues", "productChars"})
  BY <1>2 DEF Changed
<1> QED BY <1>4, <1>5, <1>6, <1>7, <1>8, CharacteristicsFrame
        DEF Consistent, NothingDangles, KeysUnique, ValuesFit

\* A characteristic is renamed to a name no other has.
LEMMA UpdateCharacteristicStep ==
    ASSUME Consistent(d), NEW id, NEW name \in CharNames, UpdateCharacteristic(id, name)
    PROVE  Consistent(d')
<1> DEFINE row == [name |-> name]
           t == d["characteristics"]
           u == d'["characteristics"]
<1>1. \A m \in TableNames : IsTable(d[m], Row[m]) BY DEF Consistent, WellFormed
<1>2. /\ Changed(d, d', {"characteristics"})
      /\ id \in Ids(t) /\ u = Put(t, id, row)
  BY DEF UpdateCharacteristic, Commit, Consistent, WellFormed, Changed, TableNames
<1>3. IsTable(t, Row["characteristics"]) /\ row \in Row["characteristics"]
  BY <1>1 DEF Row, TableNames
<1>4. IsTable(u, Row["characteristics"]) /\ Ids(t) = Ids(u)
  BY <1>2, <1>3, PutFacts
<1>5. WellFormed(d') BY <1>1, <1>2, <1>4 DEF WellFormed, Changed
<1>6. UniqueOn(u, {"name"})
  <2>1. UniqueOn(t, {"name"}) BY DEF Consistent, KeysUnique
  <2>2. \A i \in Ids(t) \ {id} : t.items[i].name # name
    BY MatchingFacts DEF UpdateCharacteristic
  <2> QED BY <1>2, <1>3, <2>1, <2>2, PutUnique
<1>7. d'.charValues = d.charValues /\ d'.productChars = d.productChars
  BY <1>2 DEF Changed, TableNames
<1>8. Changed(d, d', {"characteristics", "charValues", "productChars"})
  BY <1>2 DEF Changed
<1> QED BY <1>4, <1>5, <1>6, <1>7, <1>8, CharacteristicsFrame
        DEF Consistent, NothingDangles, KeysUnique, ValuesFit

\* A characteristic goes with its values and with the links to it.
LEMMA DeleteCharacteristicStep ==
    ASSUME Consistent(d), NEW id, DeleteCharacteristic(id)
    PROVE  Consistent(d')
<1> DEFINE cs == d["characteristics"]
           vs == d["charValues"]
           ps == d["productChars"]
           V == Matching(vs, [characteristicID |-> id])
           P == Matching(ps, [characteristicID |-> id])
<1>1. \A m \in TableNames : IsTable(d[m], Row[m]) BY DEF Consistent, WellFormed
<1>2. /\ Changed(d, d', {"characteristics", "charValues", "productChars"})
      /\ d'["characteristics"] = Without(cs, {id})
      /\ d'["charValues"] = Without(vs, V)
      /\ d'["productChars"] = Without(ps, P)
  BY DEF DeleteCharacteristic, Commit, Consistent, WellFormed, Changed, TableNames
<1>3. /\ IsTable(cs, Row["characteristics"])
      /\ IsTable(vs, Row["charValues"])
      /\ IsTable(ps, Row["productChars"])
  BY <1>1 DEF TableNames
<1>4. /\ IsTable(d'["characteristics"], Row["characteristics"])
      /\ Ids(d'["characteristics"]) = Ids(cs) \ {id}
  BY <1>2, <1>3, WithoutFacts
<1>5. /\ IsTable(d'["charValues"], Row["charValues"])
      /\ Ids(d'["charValues"]) = Ids(vs) \ V
      /\ \A i \in Ids(vs) \ V : d'["charValues"].items[i] = vs.items[i]
      /\ \A i \in Ids(vs) \ V : vs.items[i].characteristicID # id
  BY <1>2, <1>3, WithoutFacts, MatchingFacts
<1>6. /\ IsTable(d'["productChars"], Row["productChars"])
      /\ Ids(d'["productChars"]) = Ids(ps) \ P
      /\ \A i \in Ids(ps) \ P : d'["productChars"].items[i] = ps.items[i]
      /\ \A i \in Ids(ps) \ P : ps.items[i].characteristicID # id
  BY <1>2, <1>3, WithoutFacts, MatchingFacts
<1>7. WellFormed(d') BY <1>1, <1>2, <1>4, <1>5, <1>6 DEF WellFormed, Changed
<1>8. \A i \in Ids(ps) \ P : ps.items[i].valueID \in Ids(vs) \ V
  <2>1. \A i \in Ids(ps) : /\ ps.items[i].valueID \in Ids(vs)
                           /\ vs.items[ps.items[i].valueID].characteristicID
                                = ps.items[i].characteristicID
    BY DEF Consistent, NothingDangles, ValuesFit
  <2>2. \A v \in V : vs.items[v].characteristicID = id BY MatchingFacts
  <2> QED BY <2>1, <2>2, <1>6
<1>9. /\ UniqueOn(d'["characteristics"], {"name"})
      /\ UniqueOn(d'["charValues"], {"characteristicID", "value"})
      /\ UniqueOn(d'["productChars"], {"productID", "characteristicID"})
  BY <1>2, <1>3, WithoutUnique DEF Consistent, KeysUnique
<1>10. \A i \in Ids(d'.charValues) :
            d'.charValues.items[i].characteristicID \in Ids(d'.characteristics)
  BY <1>4, <1>5 DEF Consistent, NothingDangles
<1>11. \A i \in Ids(d'.productChars) :
            /\ d'.productChars.items[i].productID \in Ids(d.products)
            /\ d'.productChars.items[i].characteristicID \in Ids(d'.characteristics)
            /\ d'.productChars.items[i].valueID \in Ids(d'.charValues)
  BY <1>4, <1>5, <1>6, <1>8 DEF Consistent, NothingDangles
<1>12. ValuesFit(d') BY <1>5, <1>6, <1>8 DEF Consistent, ValuesFit
<1> QED BY <1>2, <1>7, <1>9, <1>10, <1>11, <1>12, CharacteristicsFrame

\* A value is inserted that its characteristic does not have yet.
LEMMA CreateCharacteristicValueStep ==
    ASSUME Consistent(d), NEW characteristicID \in Nat, NEW value \in Values,
           CreateCharacteristicValue(characteristicID, value)
    PROVE  Consistent(d')
<1> DEFINE row == [characteristicID |-> characteristicID, value |-> value]
           t == d["charValues"]
           u == d'["charValues"]
<1>1. \A m \in TableNames : IsTable(d[m], Row[m]) BY DEF Consistent, WellFormed
<1>2. /\ Changed(d, d', {"charValues"})
      /\ u = Insert(t, row)
      /\ characteristicID \in Ids(d.characteristics)
  BY DEF CreateCharacteristicValue, Commit, Consistent, WellFormed, Changed, TableNames
<1>3. IsTable(t, Row["charValues"]) /\ row \in Row["charValues"]
  BY <1>1 DEF Row, TableNames
<1>4. /\ IsTable(u, Row["charValues"])
      /\ Ids(u) = Ids(t) \cup {NextID(t)}
      /\ u.items[NextID(t)] = row
      /\ \A i \in Ids(t) : u.items[i] = t.items[i]
  BY <1>2, <1>3, InsertFacts
<1>5. WellFormed(d') BY <1>1, <1>2, <1>4 DEF WellFormed, Changed
<1>6. UniqueOn(u, {"characteristicID", "value"})
  <2>1. UniqueOn(t, {"characteristicID", "value"}) BY DEF Consistent, KeysUnique
  <2>2. \A i \in Ids(t) : ~(/\ t.items[i].characteristicID = characteristicID
                            /\ t.items[i].value = value)
    BY MatchingFacts DEF CreateCharacteristicValue
  <2> QED BY <1>2, <1>3, <2>1, <2>2, InsertUnique
<1>7. d'.characteristics = d.characteristics /\ d'.productChars = d.productChars
  BY <1>2 DEF Changed, TableNames
<1>8. Changed(d, d', {"characteristics", "charValues", "productChars"})
  BY <1>2 DEF Changed
<1>9. ValuesFit(d') BY <1>4, <1>7 DEF Consistent, ValuesFit, NothingDangles
<1>10. \A i \in Ids(d'.charValues) :
            d'.charValues.items[i].characteristicID \in Ids(d'.characteristics)
  BY <1>2, <1>4, <1>7 DEF Consistent, NothingDangles
<1> QED BY <1>4, <1>5, <1>6, <1>7, <1>8, <1>9, <1>10, CharacteristicsFrame
        DEF Consistent, NothingDangles, KeysUnique

\* A value changes in place and stays with its characteristic.
LEMMA UpdateCharacteristicValueStep ==
    ASSUME Consistent(d), NEW valueID, NEW value \in Values,
           UpdateCharacteristicValue(valueID, value)
    PROVE  Consistent(d')
<1> DEFINE t == d["charValues"]
           u == d'["charValues"]
           row == [t.items[valueID] EXCEPT !.value = value]
<1>1. \A m \in TableNames : IsTable(d[m], Row[m]) BY DEF Consistent, WellFormed
<1>2. /\ Changed(d, d', {"charValues"})
      /\ valueID \in Ids(t)
      /\ u = Put(t, valueID, row)
  BY DEF UpdateCharacteristicValue, Commit, Consistent, WellFormed, Changed, TableNames
<1>3. IsTable(t, Row["charValues"]) /\ t.items[valueID] \in Row["charValues"]
  BY <1>1, <1>2 DEF TableNames, IsTable
<1>4. /\ row \in Row["charValues"]
      /\ row.characteristicID = t.items[valueID].characteristicID
      /\ row.value = value
      /\ row = [characteristicID |-> t.items[valueID].characteristicID, value |-> value]
  BY <1>3 DEF Row
<1> HIDE DEF row
<1>5. /\ IsTable(u, Row["charValues"])
      /\ Ids(u) = Ids(t)
      /\ u.items[valueID] = row
      /\ \A i \in Ids(t) \ {valueID} : u.items[i] = t.items[i]
  <2>1. row \in Row["charValues"] BY <1>4
  <2>2. IsTable(t, Row["charValues"]) BY <1>3
  <2> QED BY <1>2, <2>1, <2>2, PutFacts
<1>6. WellFormed(d') BY <1>1, <1>2, <1>5 DEF WellFormed, Changed
<1>7. UniqueOn(u, {"characteristicID", "value"})
  <2>1. UniqueOn(t, {"characteristicID", "value"}) BY DEF Consistent, KeysUnique
  <2>2. Matching(t, row) \subseteq {valueID} BY DEF UpdateCharacteristicValue, row
  <2>3. \A i \in Ids(t) \ {valueID} :
            ~(t.items[i].characteristicID = row.characteristicID /\ t.items[i].value = row.value)
    BY <1>4, <2>2, MatchingFacts
  <2> QED BY <1>2, <1>3, <1>4, <2>1, <2>3, PutUnique
<1>8. d'.characteristics = d.characteristics /\ d'.productChars = d.productChars
  BY <1>2 DEF Changed, TableNames
<1>9. Changed(d, d', {"characteristics", "charValues", "productChars"})
  BY <1>2 DEF Changed
<1>10. \A i \in Ids(t) : u.items[i].characteristicID = t.items[i].characteristicID
  BY <1>4, <1>5
<1>11. ValuesFit(d') BY <1>5, <1>8, <1>10 DEF Consistent, ValuesFit, NothingDangles
<1> QED BY <1>5, <1>6, <1>7, <1>8, <1>9, <1>10, <1>11, CharacteristicsFrame
        DEF Consistent, NothingDangles, KeysUnique

\* A value goes with the links that show it.
LEMMA DeleteCharacteristicValueStep ==
    ASSUME Consistent(d), NEW valueID, DeleteCharacteristicValue(valueID)
    PROVE  Consistent(d')
<1> DEFINE vs == d["charValues"]
           ps == d["productChars"]
           P == Matching(ps, [valueID |-> valueID])
<1>1. \A m \in TableNames : IsTable(d[m], Row[m]) BY DEF Consistent, WellFormed
<1>2. /\ Changed(d, d', {"charValues", "productChars"})
      /\ d'["charValues"] = Without(vs, {valueID})
      /\ d'["productChars"] = Without(ps, P)
  BY DEF DeleteCharacteristicValue, Commit, Consistent, WellFormed, Changed, TableNames
<1>3. IsTable(vs, Row["charValues"]) /\ IsTable(ps, Row["productChars"])
  BY <1>1 DEF TableNames
<1>4. /\ IsTable(d'["charValues"], Row["charValues"])
      /\ Ids(d'["charValues"]) = Ids(vs) \ {valueID}
      /\ \A i \in Ids(vs) \ {valueID} : d'["charValues"].items[i] = vs.items[i]
  BY <1>2, <1>3, WithoutFacts
<1>5. /\ IsTable(d'["productChars"], Row["productChars"])
      /\ Ids(d'["productChars"]) = Ids(ps) \ P
      /\ \A i \in Ids(ps) \ P : d'["productChars"].items[i] = ps.items[i]
      /\ \A i \in Ids(ps) \ P : ps.items[i].valueID # valueID
  BY <1>2, <1>3, WithoutFacts, MatchingFacts
<1>6. WellFormed(d') BY <1>1, <1>2, <1>4, <1>5 DEF WellFormed, Changed
<1>7. d'.characteristics = d.characteristics
  BY <1>2 DEF Changed, TableNames
<1>8. /\ UniqueOn(d'["charValues"], {"characteristicID", "value"})
      /\ UniqueOn(d'["productChars"], {"productID", "characteristicID"})
  BY <1>2, <1>3, WithoutUnique DEF Consistent, KeysUnique
<1>9. \A i \in Ids(d'.charValues) :
            d'.charValues.items[i].characteristicID \in Ids(d'.characteristics)
  BY <1>4, <1>7 DEF Consistent, NothingDangles
<1>10. \A i \in Ids(d'.productChars) :
            /\ d'.productChars.items[i].productID \in Ids(d.products)
            /\ d'.productChars.items[i].characteristicID \in Ids(d'.characteristics)
            /\ d'.productChars.items[i].valueID \in Ids(d'.charValues)
  BY <1>4, <1>5, <1>7 DEF Consistent, NothingDangles
<1>11. ValuesFit(d') BY <1>4, <1>5, <1>10 DEF Consistent, ValuesFit
<1>12. Changed(d, d', {"characteristics", "charValues", "productChars"})
  BY <1>2 DEF Changed
<1> QED BY <1>6, <1>7, <1>8, <1>9, <1>10, <1>11, <1>12, CharacteristicsFrame
        DEF Consistent, KeysUnique

\* A change of the values products have, the characteristics being the same.
LEMMA LinksFrame ==
    ASSUME Consistent(d), NEW y, Changed(d, y, {"productChars"}),
           IsTable(y["productChars"], Row["productChars"]),
           \A i \in Ids(y["productChars"]) :
                LET pc == y["productChars"].items[i]
                IN  /\ pc.productID \in Ids(d.products)
                    /\ pc.characteristicID \in Ids(d.characteristics)
                    /\ pc.valueID \in Ids(d.charValues)
                    /\ d.charValues.items[pc.valueID].characteristicID = pc.characteristicID,
           UniqueOn(y["productChars"], {"productID", "characteristicID"})
    PROVE  Consistent(y)
<1>1. WellFormed(y) BY DEF Consistent, WellFormed, Changed
<1>2. y.characteristics = d.characteristics /\ y.charValues = d.charValues
  BY DEF Changed, TableNames
<1>3. Changed(d, y, {"characteristics", "charValues", "productChars"})
  BY DEF Changed
<1>4. ValuesFit(y) BY <1>2 DEF ValuesFit
<1> QED BY <1>1, <1>2, <1>3, <1>4, CharacteristicsFrame
        DEF Consistent, NothingDangles, KeysUnique

\* An upsert replaces the product's one link or inserts its first.
LEMMA SetProductCharacteristicStep ==
    ASSUME Consistent(d), NEW productID \in Nat, NEW characteristicID \in Nat,
           NEW valueID \in Nat,
           SetProductCharacteristic(productID, characteristicID, valueID)
    PROVE  Consistent(d')
<1> DEFINE t == d["productChars"]
           u == d'["productChars"]
           links == Links(productID, characteristicID)
           fresh == [productID |-> productID, characteristicID |-> characteristicID,
                     valueID |-> valueID]
<1>1. \A m \in TableNames : IsTable(d[m], Row[m]) BY DEF Consistent, WellFormed
<1>2. IsTable(t, Row["productChars"]) BY <1>1 DEF TableNames
<1>3. /\ productID \in Ids(d.products)
      /\ characteristicID \in Ids(d.characteristics)
      /\ valueID \in Ids(d.charValues)
      /\ d.charValues.items[valueID].characteristicID = characteristicID
  BY DEF SetProductCharacteristic
<1>4. links = {i \in Ids(t) : /\ t.items[i].productID = productID
                              /\ t.items[i].characteristicID = characteristicID}
  BY MatchingFacts DEF Links
<1>5. \A i \in Ids(t) : /\ t.items[i].productID \in Ids(d.products)
                        /\ t.items[i].characteristicID \in Ids(d.characteristics)
                        /\ t.items[i].valueID \in Ids(d.charValues)
                        /\ d.charValues.items[t.items[i].valueID].characteristicID
                                = t.items[i].characteristicID
  BY DEF Consistent, NothingDangles, ValuesFit
<1>6. UniqueOn(t, {"productID", "characteristicID"}) BY DEF Consistent, KeysUnique
<1>7. CASE links # {}
  <2>1. PICK k \in links :
            d' = [d EXCEPT !.productChars = Put(@, k, [@.items[k] EXCEPT !.valueID = valueID])]
    BY <1>7 DEF SetProductCharacteristic, Commit
  <2> DEFINE row == [t.items[k] EXCEPT !.valueID = valueID]
  <2>2. k \in Ids(t) /\ t.items[k] \in Row["productChars"]
    BY <1>2, <1>4 DEF IsTable
  <2>3. /\ row \in Row["productChars"]
        /\ row.productID = productID
        /\ row.characteristicID = characteristicID
        /\ row.valueID = valueID
    BY <1>4, <2>2 DEF Row
  <2>4. Changed(d, d', {"productChars"}) /\ u = Put(t, k, row)
    BY <2>1 DEF Consistent, WellFormed, Changed, TableNames
  <2> HIDE DEF row, links
  <2>5. /\ IsTable(u, Row["productChars"])
        /\ Ids(u) = Ids(t)
        /\ u.items[k] = row
        /\ \A i \in Ids(t) \ {k} : u.items[i] = t.items[i]
    BY <1>2, <2>2, <2>3, <2>4, PutFacts
  <2>6. \A i \in Ids(t) \ {k} : t.items[i].productID # row.productID
                                 \/ t.items[i].characteristicID # row.characteristicID
    BY <1>4, <1>6, <2>2, <2>3 DEF UniqueOn
  <2>7. UniqueOn(u, {"productID", "characteristicID"})
    BY <1>2, <1>6, <2>2, <2>3, <2>4, <2>6, PutUnique
  <2>8. \A i \in Ids(u) :
            /\ u.items[i].productID \in Ids(d.products)
            /\ u.items[i].characteristicID \in Ids(d.characteristics)
            /\ u.items[i].valueID \in Ids(d.charValues)
            /\ d.charValues.items[u.items[i].valueID].characteristicID
                    = u.items[i].characteristicID
    BY <1>3, <1>5, <2>3, <2>5
  <2> QED BY <2>4, <2>5, <2>7, <2>8, LinksFrame
<1>8. CASE links = {}
  <2>1. d' = [d EXCEPT !.productChars = Insert(@, fresh)]
    BY <1>8 DEF SetProductCharacteristic, Commit
  <2>2. Changed(d, d', {"productChars"}) /\ u = Insert(t, fresh)
    BY <2>1 DEF Consistent, WellFormed, Changed, TableNames
  <2>3. fresh \in Row["productChars"] BY DEF Row
  <2>4. /\ IsTable(u, Row["productChars"])
        /\ Ids(u) = Ids(t) \cup {NextID(t)}
        /\ u.items[NextID(t)] = fresh
        /\ \A i \in Ids(t) : u.items[i] = t.items[i]
    BY <1>2, <2>2, <2>3, InsertFacts
  <2>5. \A i \in Ids(t) : t.items[i].productID # productID
                           \/ t.items[i].characteristicID # characteristicID
    BY <1>4, <1>8
  <2>6. UniqueOn(u, {"productID", "characteristicID"})
    BY <1>2, <1>6, <2>2, <2>3, <2>5, InsertUnique
  <2>7. \A i \in Ids(u) :
            /\ u.items[i].productID \in Ids(d.products)
            /\ u.items[i].characteristicID \in Ids(d.characteristics)
            /\ u.items[i].valueID \in Ids(d.charValues)
            /\ d.charValues.items[u.items[i].valueID].characteristicID
                    = u.items[i].characteristicID
    BY <1>3, <1>5, <2>4
  <2> QED BY <2>2, <2>4, <2>6, <2>7, LinksFrame
<1> QED BY <1>7, <1>8

\* A link goes, and nothing refers to links.
LEMMA DeleteProductCharacteristicStep ==
    ASSUME Consistent(d), NEW productID, NEW characteristicID,
           DeleteProductCharacteristic(productID, characteristicID)
    PROVE  Consistent(d')
<1> DEFINE t == d["productChars"]
           u == d'["productChars"]
<1>1. IsTable(t, Row["productChars"]) BY DEF Consistent, WellFormed, TableNames
<1>2. PICK k : d' = [d EXCEPT !.productChars = Without(@, {k})]
  BY DEF DeleteProductCharacteristic, Commit
<1>3. Changed(d, d', {"productChars"}) /\ u = Without(t, {k})
  BY <1>2 DEF Consistent, WellFormed, Changed, TableNames
<1>4. /\ IsTable(u, Row["productChars"])
      /\ \A i \in Ids(u) : i \in Ids(t) /\ u.items[i] = t.items[i]
  BY <1>1, <1>3, WithoutFacts
<1>5. UniqueOn(u, {"productID", "characteristicID"})
  BY <1>1, <1>3, WithoutUnique DEF Consistent, KeysUnique
<1> QED BY <1>3, <1>4, <1>5, LinksFrame DEF Consistent, NothingDangles, ValuesFit

-----------------------------------------------------------------------------
(* Media and admins *)

\* Unsetting the flag elsewhere leaves exceptID alone with it.
LEMMA UnsetFacts ==
    ASSUME NEW m, IsTable(m, Row["media"]), NEW entityType, NEW entityID, NEW exceptID
    PROVE  LET u == UnsetMainExcept(m, entityType, entityID, exceptID)
           IN  /\ IsTable(u, Row["media"])
               /\ Ids(u) = Ids(m)
               /\ \A i \in Ids(m) : /\ u.items[i].entityType = m.items[i].entityType
                                    /\ u.items[i].entityID = m.items[i].entityID
                                    /\ u.items[i].isMain =>
                                        /\ m.items[i].isMain
                                        /\ ~(/\ m.items[i].entityType = entityType
                                             /\ m.items[i].entityID = entityID
                                             /\ i # exceptID)
<1> DEFINE u == UnsetMainExcept(m, entityType, entityID, exceptID)
           gallery == Matching(m, [entityType |-> entityType, entityID |-> entityID])
           others == {i \in gallery \ {exceptID} : m.items[i].isMain}
           New(i) == IF i \in others THEN [m.items[i] EXCEPT !.isMain = FALSE] ELSE m.items[i]
<1>1. /\ u.items = [i \in Ids(m) |-> New(i)]
      /\ u.seq = m.seq
      /\ DOMAIN u = DOMAIN m
  BY DEF UnsetMainExcept, IsTable
<1>2. Ids(u) = Ids(m) /\ \A i \in Ids(m) : u.items[i] = New(i)
  BY <1>1 DEF Ids
<1>3. \A i \in Ids(m) : i \in others <=>
            /\ m.items[i].entityType = entityType
            /\ m.items[i].entityID = entityID
            /\ m.items[i].isMain
            /\ i # exceptID
  BY MatchingFacts
<1>4. \A i \in Ids(m) : m.items[i] \in Row["media"] BY DEF IsTable
<1> HIDE DEF others
<1>5. \A i \in Ids(m) : /\ New(i) \in Row["media"]
                        /\ New(i).entityType = m.items[i].entityType
                        /\ New(i).entityID = m.items[i].entityID
                        /\ New(i).isMain = (m.items[i].isMain /\ i \notin others)
  <2> SUFFICES ASSUME NEW i \in Ids(m)
               PROVE  /\ New(i) \in Row["media"]
                      /\ New(i).entityType = m.items[i].entityType
                      /\ New(i).entityID = m.items[i].entityID
                      /\ New(i).isMain = (m.items[i].isMain /\ i \notin others)
    OBVIOUS
  <2>1. m.items[i] \in [entityType : EntityTypes, entityID : Nat, isMain : BOOLEAN]
    BY <1>4 DEF Row
  <2> QED BY <2>1 DEF Row
<1> HIDE DEF New, u
<1>6. IsTable(u, Row["media"]) BY <1>1, <1>2, <1>5 DEF IsTable
<1>7. \A i \in Ids(m) : m.items[i].isMain \in BOOLEAN BY <1>4 DEF Row
<1> QED BY <1>2, <1>3, <1>5, <1>6, <1>7 DEF u

\* The pictures change and stay well formed, at most one main per entity.
LEMMA PicturesFrame ==
    ASSUME Consistent(d), NEW y, Changed(d, y, {"media"}),
           IsTable(y["media"], Row["media"]), OneMainPicture(y)
    PROVE  Consistent(y)
<1>1. WellFormed(y) BY DEF Consistent, WellFormed, Changed
<1>2. Changed(d, y, {"media", "admins"}) BY DEF Changed
<1> QED BY <1>1, <1>2, MediaFrame

\* A picture that is the only one of its entity allowed to keep the flag.
LEMMA OnlyMain ==
    ASSUME NEW m, IsTable(m, Row["media"]), NEW k \in Ids(m), NEW y,
           \A i, j \in Ids(m) \ {k} :
                /\ m.items[i].isMain
                /\ m.items[j].isMain
                /\ m.items[i].entityType = m.items[j].entityType
                /\ m.items[i].entityID = m.items[j].entityID
                => i = j,
           y.media = UnsetMainExcept(m, m.items[k].entityType, m.items[k].entityID, k)
    PROVE  OneMainPicture(y)
<1> DEFINE u == UnsetMainExcept(m, m.items[k].entityType, m.items[k].entityID, k)
<1>1. /\ Ids(u) = Ids(m)
      /\ \A i \in Ids(m) : /\ u.items[i].entityType = m.items[i].entityType
                           /\ u.items[i].entityID = m.items[i].entityID
                           /\ u.items[i].isMain =>
                                /\ m.items[i].isMain
                                /\ ~(/\ m.items[i].entityType = m.items[k].entityType
                                     /\ m.items[i].entityID = m.items[k].entityID
                                     /\ i # k)
  BY UnsetFacts
<1> HIDE DEF u
<1>2. \A i, j \in Ids(u) :
            /\ u.items[i].isMain
            /\ u.items[j].isMain
            /\ u.items[i].entityType = u.items[j].entityType
            /\ u.items[i].entityID = u.items[j].entityID
            => i = j
  BY <1>1
<1>3. y.media = u BY DEF u
<1> QED BY <1>2, <1>3 DEF OneMainPicture

\* A new main picture takes the flag from the others.
LEMMA AddMediaStep ==
    ASSUME Consistent(d), NEW entityType \in EntityTypes, NEW entityID \in Nat,
           NEW isMain \in BOOLEAN, AddMedia(entityType, entityID, isMain)
    PROVE  Consistent(d')
<1> DEFINE t == d["media"]
           row == [entityType |-> entityType, entityID |-> entityID, isMain |-> isMain]
           added == Insert(t, row)
           k == NextID(t)
<1>1. IsTable(t, Row["media"]) BY DEF Consistent, WellFormed, TableNames
<1>2. row \in Row["media"] BY DEF Row
<1>3. /\ row.entityType = entityType
      /\ row.entityID = entityID
      /\ row.isMain = isMain
  OBVIOUS
<1>4. /\ Changed(d, d', {"media"})
      /\ d'["media"] = IF isMain THEN UnsetMainExcept(added, entityType, entityID, k)
                                 ELSE added
  BY DEF AddMedia, Commit, Consistent, WellFormed, Changed, TableNames
<1> HIDE DEF row
<1>5. /\ IsTable(added, Row["media"])
      /\ Ids(added) = Ids(t) \cup {k}
      /\ added.items[k] = row
      /\ \A i \in Ids(t) : added.items[i] = t.items[i]
  BY <1>1, <1>2, InsertFacts
<1> HIDE DEF added, k
<1>6. \A i, j \in Ids(t) :
            /\ t.items[i].isMain
            /\ t.items[j].isMain
            /\ t.items[i].entityType = t.items[j].entityType
            /\ t.items[i].entityID = t.items[j].entityID
            => i = j
  BY DEF Consistent, OneMainPicture
<1>7. CASE isMain
  <2>1. d'.media = UnsetMainExcept(added, added.items[k].entityType,
                                   added.items[k].entityID, k)
    BY <1>3, <1>4, <1>5, <1>7
  <2>2. IsTable(d'["media"], Row["media"]) BY <1>5, <2>1, UnsetFacts
  <2>3. OneMainPicture(d') BY <1>5, <1>6, <2>1, OnlyMain
  <2> QED BY <1>4, <2>2, <2>3, PicturesFrame
<1>8. CASE ~isMain
  <2>1. d'["media"] = added BY <1>4, <1>8
  <2>2. OneMainPicture(d') BY <1>3, <1>5, <1>6, <1>8, <2>1 DEF OneMainPicture
  <2> QED BY <1>4, <1>5, <2>1, <2>2, PicturesFrame
<1> QED BY <1>7, <1>8

\* A picture goes, and nothing refers to pictures.
LEMMA DeleteMediaStep ==
    ASSUME Consistent(d), NEW id, DeleteMedia(id)
    PROVE  Consistent(d')
<1>1. IsTable(d["media"], Row["media"]) BY DEF Consistent, WellFormed, TableNames
<1>2. Changed(d, d', {"media"}) /\ d'["media"] = Without(d["media"], {id})
  BY DEF DeleteMedia, Commit, Consistent, WellFormed, Changed, TableNames
<1>3. /\ IsTable(d'["media"], Row["media"])
      /\ \A i \in Ids(d'.media) : i \in Ids(d.media) /\ d'.media.items[i] = d.media.items[i]
  BY <1>1, <1>2, WithoutFacts
<1>4. OneMainPicture(d') BY <1>3 DEF Consistent, OneMainPicture
<1> QED BY <1>2, <1>3, <1>4, PicturesFrame

\* A picture becomes the main one and takes the flag from the others.
LEMMA SetMainMediaStep ==
    ASSUME Consistent(d), NEW id, SetMainMedia(id)
    PROVE  Consistent(d')
<1> DEFINE t == d["media"]
           row == [t.items[id] EXCEPT !.isMain = TRUE]
           m == Put(t, id, row)
<1>1. IsTable(t, Row["media"]) BY DEF Consistent, WellFormed, TableNames
<1>2. /\ id \in Ids(t)
      /\ Changed(d, d', {"media"})
      /\ d'["media"] = UnsetMainExcept(m, t.items[id].entityType, t.items[id].entityID, id)
  BY DEF SetMainMedia, Commit, Consistent, WellFormed, Changed, TableNames
<1>3. t.items[id] \in [entityType : EntityTypes, entityID : Nat, isMain : BOOLEAN]
  BY <1>1, <1>2 DEF IsTable, Row
<1>4. /\ row \in Row["media"]
      /\ row.entityType = t.items[id].entityType
      /\ row.entityID = t.items[id].entityID
  BY <1>3 DEF Row
<1> HIDE DEF row
<1>5. /\ IsTable(m, Row["media"])
      /\ Ids(m) = Ids(t)
      /\ m.items[id] = row
      /\ \A i \in Ids(t) \ {id} : m.items[i] = t.items[i]
  <2>1. row \in Row["media"] BY <1>4
  <2> QED BY <1>1, <1>2, <2>1, PutFacts
<1> HIDE DEF m
<1>6. \A i, j \in Ids(t) :
            /\ t.items[i].isMain
            /\ t.items[j].isMain
            /\ t.items[i].entityType = t.items[j].entityType
            /\ t.items[i].entityID = t.items[j].entityID
            => i = j
  BY DEF Consistent, OneMainPicture
<1>7. d'.media = UnsetMainExcept(m, m.items[id].entityType, m.items[id].entityID, id)
  BY <1>2, <1>4, <1>5
<1>8. OneMainPicture(d') BY <1>2, <1>5, <1>6, <1>7, OnlyMain
<1>9. IsTable(d'["media"], Row["media"]) BY <1>5, <1>7, UnsetFacts
<1> QED BY <1>2, <1>8, <1>9, PicturesFrame

\* Only a password hash changes.
LEMMA SetPasswordHashStep ==
    ASSUME Consistent(d), NEW username, NEW hash \in Hashes, SetPasswordHash(username, hash)
    PROVE  Consistent(d')
<1> DEFINE t == d["admins"]
<1>1. \A m \in TableNames : IsTable(d[m], Row[m]) BY DEF Consistent, WellFormed
<1>2. PICK k \in Ids(t) :
          d' = [d EXCEPT !.admins = Put(@, k, [@.items[k] EXCEPT !.passwordHash = hash])]
  BY DEF SetPasswordHash, Commit, Matching
<1> DEFINE row == [t.items[k] EXCEPT !.passwordHash = hash]
<1>3. Changed(d, d', {"admins"}) /\ d'["admins"] = Put(t, k, row)
  BY <1>2 DEF Consistent, WellFormed, Changed, TableNames
<1>4. IsTable(t, Row["admins"]) BY <1>1 DEF TableNames
<1>5. row \in Row["admins"]
  <2>1. t.items[k] \in [username : Usernames, passwordHash : Hashes]
    BY <1>4 DEF IsTable, Row
  <2> QED BY <2>1 DEF Row
<1> HIDE DEF row
<1>6. IsTable(d'["admins"], Row["admins"])
  BY <1>3, <1>4, <1>5, PutFacts
<1>7. WellFormed(d') BY <1>1, <1>3, <1>6 DEF WellFormed, Changed
<1>8. Changed(d, d', {"media", "admins"}) BY <1>3 DEF Changed
<1>9. d'.media = d.media BY <1>3 DEF Changed, TableNames
<1> QED BY <1>7, <1>8, <1>9, MediaFrame DEF Consistent, OneMainPicture

-----------------------------------------------------------------------------
(* The start, and the theorem *)

\* The empty table is a table of anything.
LEMMA EmptyFacts ==
    /\ \A R : IsTable(EmptyTable, R)
    /\ Ids(EmptyTable) = {}
  BY DEF EmptyTable, IsTable, Ids

\* New without a snapshot file starts consistent.
LEMMA EmptyConsistent == Consistent(EmptyData)
<1>1. \A n \in TableNames : EmptyData[n] = EmptyTable BY DEF EmptyData
<1>2. DOMAIN EmptyData = TableNames BY DEF EmptyData
<1>3. WellFormed(EmptyData) BY <1>1, <1>2, EmptyFacts DEF WellFormed
<1>4. /\ \A n \in SluggedTables : Ids(EmptyData[n]) = {}
      /\ Ids(EmptyData.subcategories) = {}
      /\ Ids(EmptyData.products) = {}
      /\ Ids(EmptyData.characteristics) = {}
      /\ Ids(EmptyData.charValues) = {}
      /\ Ids(EmptyData.productChars) = {}
      /\ Ids(EmptyData.media) = {}
  BY <1>1, EmptyFacts DEF TableNames, SluggedTables
<1>5. NothingDangles(EmptyData) BY <1>4 DEF NothingDangles
<1>6. KeysUnique(EmptyData) BY <1>4 DEF KeysUnique, UniqueOn
<1>7. ValuesFit(EmptyData) /\ OneMainPicture(EmptyData)
  BY <1>4 DEF ValuesFit, OneMainPicture
<1> QED BY <1>3, <1>5, <1>6, <1>7 DEF Consistent

\* EnsureAdmin keeps any consistent data consistent, and provides a login.
LEMMA EnsureAdminFacts ==
    ASSUME NEW x, Consistent(x), NEW u \in Usernames, NEW h \in Hashes
    PROVE  /\ Consistent(EnsureAdmin(x, u, h))
           /\ Ids(EnsureAdmin(x, u, h).admins) # {}
<1> DEFINE row == [username |-> u, passwordHash |-> h]
           y == EnsureAdmin(x, u, h)
<1>1. CASE NeedsAdmin(x)
  <2>1. Changed(x, y, {"admins"}) /\ y["admins"] = Insert(x["admins"], row)
    BY <1>1 DEF EnsureAdmin, Consistent, WellFormed, Changed, TableNames
  <2>2. \A m \in TableNames : IsTable(x[m], Row[m]) BY DEF Consistent, WellFormed
  <2>3. IsTable(x["admins"], Row["admins"]) /\ row \in Row["admins"]
    BY <2>2 DEF Row, TableNames
  <2> HIDE DEF y, row
  <2>4. /\ IsTable(y["admins"], Row["admins"])
        /\ Ids(y["admins"]) = Ids(x["admins"]) \cup {NextID(x["admins"])}
    BY <2>1, <2>3, InsertFacts
  <2>5. WellFormed(y) BY <2>1, <2>2, <2>4 DEF WellFormed, Changed
  <2>6. Changed(x, y, {"media", "admins"}) BY <2>1 DEF Changed
  <2>7. y.media = x.media BY <2>1 DEF Changed, TableNames
  <2>8. Consistent(y) BY <2>5, <2>6, <2>7, MediaFrame DEF Consistent, OneMainPicture
  <2> QED BY <2>4, <2>8 DEF y
<1>2. CASE ~NeedsAdmin(x)
  BY <1>2 DEF EnsureAdmin, NeedsAdmin
<1> QED BY <1>1, <1>2

\* The bounded ids are natural numbers.
LEMMA IdsOfNat == \A n \in TableNames \ {"admins"} : IdsOf(n) \subseteq Nat
  BY BoundsAssumption DEF IdsOf

\* The operations on categories, subcategories and products.
LEMMA CatalogStep ==
    ASSUME Consistent(d), CatalogNext
    PROVE  Consistent(d')
<1>1. /\ IdsOf("categories") \subseteq Nat
      /\ IdsOf("subcategories") \subseteq Nat
  BY IdsOfNat DEF TableNames, SluggedTables
<1>2. ASSUME NEW slug \in Slugs, NEW status \in StatusInputs,
             \/ CreateCategory(slug, status)
             \/ \E id \in IdsOf("categories") :
                  UpdateCategory(id, slug, status) \/ CreateSubcategory(id, slug, status)
      PROVE  Consistent(d')
  BY <1>1, <1>2, CreateCategoryStep, UpdateCategoryStep, CreateSubcategoryStep
<1>3. ASSUME NEW slug \in Slugs, NEW status \in StatusInputs,
             NEW id \in IdsOf("subcategories"),
             \/ \E c \in IdsOf("categories") : UpdateSubcategory(id, c, slug, status)
             \/ CreateProduct(id, slug, status)
             \/ \E p \in IdsOf("products") : UpdateProduct(p, id, slug, status)
      PROVE  Consistent(d')
  BY <1>1, <1>3, UpdateSubcategoryStep, CreateProductStep, UpdateProductStep
<1>4. ASSUME NEW id, NEW status, SetProductStatus(id, status)
      PROVE  Consistent(d')
  BY <1>4, SetProductStatusStep
<1>5. ASSUME NEW id, DeleteCategory(id) \/ DeleteSubcategory(id) \/ DeleteProduct(id)
      PROVE  Consistent(d')
  BY <1>5, DeleteCategoryStep, DeleteSubcategoryStep, DeleteProductStep
<1> QED BY <1>2, <1>3, <1>4, <1>5 DEF CatalogNext

\* The operations on services, object types and advantages.
LEMMA ContentStep ==
    ASSUME Consistent(d), ContentNext
    PROVE  Consistent(d')
<1>1. ASSUME NEW n \in EntryTables,
             NEW slug \in Slugs, NEW status \in StatusInputs,
             CreateEntry(n, slug, status) \/ \E id : UpdateEntry(n, id, slug, status)
      PROVE  Consistent(d')
  BY <1>1, CreateEntryStep, UpdateEntryStep
<1>2. ASSUME NEW n \in EntryTables, NEW id, NEW status,
             SetEntryStatus(n, id, status)
      PROVE  Consistent(d')
  BY <1>2, SetEntryStatusStep
<1>3. ASSUME NEW id, \/ DeleteEntry("services", "service", id)
                     \/ DeleteEntry("objectTypes", "object_type", id)
                     \/ DeleteEntry("advantages", "advantage", id)
      PROVE  Consistent(d')
  BY <1>3, DeleteEntryStep DEF EntryTables
<1> QED BY <1>1, <1>2, <1>3
        DEF EntryTables, ContentNext, CreateService, UpdateService, SetServiceStatus, DeleteService,
            CreateObjectType, UpdateObjectType, SetObjectTypeStatus, DeleteObjectType,
            CreateAdvantage, UpdateAdvantage, SetAdvantageStatus, DeleteAdvantage

\* The operations on characteristics, values and links.
LEMMA CharacteristicsStep ==
    ASSUME Consistent(d), CharacteristicsNext
    PROVE  Consistent(d')
<1>1. /\ IdsOf("products") \subseteq Nat
      /\ IdsOf("characteristics") \subseteq Nat
      /\ IdsOf("charValues") \subseteq Nat
  BY IdsOfNat DEF TableNames, SluggedTables
<1>2. ASSUME NEW name \in CharNames,
             CreateCharacteristic(name) \/ \E id : UpdateCharacteristic(id, name)
      PROVE  Consistent(d')
  BY <1>2, CreateCharacteristicStep, UpdateCharacteristicStep
<1>3. ASSUME NEW value \in Values,
             \/ \E id \in IdsOf("characteristics") : CreateCharacteristicValue(id, value)
             \/ \E v : UpdateCharacteristicValue(v, value)
      PROVE  Consistent(d')
  BY <1>1, <1>3, CreateCharacteristicValueStep, UpdateCharacteristicValueStep
<1>4. ASSUME NEW id, DeleteCharacteristic(id) \/ DeleteCharacteristicValue(id)
      PROVE  Consistent(d')
  BY <1>4, DeleteCharacteristicStep, DeleteCharacteristicValueStep
<1>5. ASSUME NEW p \in IdsOf("products"), NEW id \in IdsOf("characteristics"),
             \/ DeleteProductCharacteristic(p, id)
             \/ \E v \in IdsOf("charValues") : SetProductCharacteristic(p, id, v)
      PROVE  Consistent(d')
  BY <1>1, <1>5, DeleteProductCharacteristicStep, SetProductCharacteristicStep
<1> QED BY <1>2, <1>3, <1>4, <1>5 DEF CharacteristicsNext

\* The operations on pictures.
LEMMA MediaStep ==
    ASSUME Consistent(d), MediaNext
    PROVE  Consistent(d')
<1>1. 1..MaxEntityID \subseteq Nat BY BoundsAssumption
<1>2. ASSUME NEW entityType \in EntityTypes, NEW entityID \in 1..MaxEntityID,
             NEW isMain \in BOOLEAN, AddMedia(entityType, entityID, isMain)
      PROVE  Consistent(d')
  BY <1>1, <1>2, AddMediaStep
<1>3. ASSUME NEW id, DeleteMedia(id) \/ SetMainMedia(id)
      PROVE  Consistent(d')
  BY <1>3, DeleteMediaStep, SetMainMediaStep
<1> QED BY <1>2, <1>3 DEF MediaNext

\* Every step keeps the data consistent.
LEMMA StoreStep ==
    ASSUME Consistent(d), [StoreNext]_storeVars
    PROVE  Consistent(d')
<1>1. CASE CatalogNext BY <1>1, CatalogStep
<1>2. CASE ContentNext BY <1>2, ContentStep
<1>3. CASE CharacteristicsNext BY <1>3, CharacteristicsStep
<1>4. CASE MediaNext BY <1>4, MediaStep
<1>5. CASE AdminNext BY <1>5, SetPasswordHashStep DEF AdminNext
<1>6. CASE UNCHANGED storeVars BY <1>6 DEF storeVars
<1> QED BY <1>1, <1>2, <1>3, <1>4, <1>5, <1>6 DEF StoreNext

\* Whatever the operations, their arguments and their order, no row refers to
\* a missing one, no two rows share a key, a product's values fit their
\* characteristics, and an entity has one main picture at most.
THEOREM StoreConsistent == StoreSpec => []Consistent(d)
<1>1. ASSUME StoreInit PROVE Consistent(d)
  <2>1. PICK u \in Usernames, h \in Hashes : d = EnsureAdmin(EmptyData, u, h)
    BY <1>1 DEF StoreInit, Boot
  <2> QED BY <2>1, EmptyConsistent, EnsureAdminFacts
<1>2. ASSUME Consistent(d), [StoreNext]_storeVars PROVE Consistent(d)'
  BY <1>2, StoreStep
<1> QED BY <1>1, <1>2, PTL DEF StoreSpec

\* A step of the store marks the data dirty.
LEMMA StepMarksDirty == StoreNext => dirty' = TRUE
<1>1. CatalogNext => dirty' = TRUE
  BY DEF CatalogNext, CreateCategory, UpdateCategory, DeleteCategory, CreateSubcategory,
         UpdateSubcategory, DeleteSubcategory, CreateProduct, UpdateProduct,
         SetProductStatus, DeleteProduct, Commit
<1>2. ContentNext => dirty' = TRUE
  BY DEF ContentNext, CreateService, UpdateService, SetServiceStatus, DeleteService,
         CreateObjectType, UpdateObjectType, SetObjectTypeStatus, DeleteObjectType,
         CreateAdvantage, UpdateAdvantage, SetAdvantageStatus, DeleteAdvantage,
         CreateEntry, UpdateEntry, SetEntryStatus, DeleteEntry, Commit
<1>3. CharacteristicsNext => dirty' = TRUE
  BY DEF CharacteristicsNext, CreateCharacteristic, UpdateCharacteristic,
         DeleteCharacteristic, CreateCharacteristicValue, UpdateCharacteristicValue,
         DeleteCharacteristicValue, SetProductCharacteristic,
         DeleteProductCharacteristic, Commit
<1>4. MediaNext => dirty' = TRUE
  BY DEF MediaNext, AddMedia, DeleteMedia, SetMainMedia, Commit
<1>5. AdminNext => dirty' = TRUE
  BY DEF AdminNext, SetPasswordHash, Commit
<1> QED BY <1>1, <1>2, <1>3, <1>4, <1>5 DEF StoreNext

\* Every table holds rows of its type under ids its counter has issued, after
\* any sequence of operations.
THEOREM StoreTypes == StoreSpec => []StoreTypeOK
<1>1. ASSUME StoreInit PROVE dirty \in BOOLEAN
  BY <1>1 DEF StoreInit, Boot, NeedsAdmin
<1>2. ASSUME dirty \in BOOLEAN, [StoreNext]_storeVars PROVE (dirty \in BOOLEAN)'
  BY <1>2, StepMarksDirty DEF storeVars
<1>3. Consistent(d) /\ dirty \in BOOLEAN => StoreTypeOK
  BY DEF Consistent, StoreTypeOK
<1> QED BY <1>1, <1>2, <1>3, StoreConsistent, PTL DEF StoreSpec

\* Creations, moves, cascades and refused deletions never leave a reference to
\* a row that is not there (categories.go:143, products.go:174).
THEOREM StoreReferences == StoreSpec => []References
<1>1. Consistent(d) => References BY DEF Consistent, References
<1> QED BY <1>1, StoreConsistent, PTL

\* Slugs, names, values and a product's characteristics stay unique.
THEOREM StoreKeys == StoreSpec => []Keys
<1>1. Consistent(d) => Keys BY DEF Consistent, Keys
<1> QED BY <1>1, StoreConsistent, PTL

\* A product is only ever shown a value of the characteristic it is listed for.
THEOREM StoreValuesMatch == StoreSpec => []ValuesMatch
<1>1. Consistent(d) => ValuesMatch BY DEF Consistent, ValuesMatch
<1> QED BY <1>1, StoreConsistent, PTL

\* An entity never has two main pictures (media.go:74).
THEOREM StoreMainPictures == StoreSpec => []MainPictures
<1>1. Consistent(d) => MainPictures BY DEF Consistent, MainPictures
<1> QED BY <1>1, StoreConsistent, PTL

-----------------------------------------------------------------------------
(* Pictures of deleted entities *)

\* What a step does to the pictures of the entities it deletes.
PicturesGo ==
    \A t \in EntityTypes : LET n == EntityTable[t] IN
        \A id \in Ids(d[n]) \ Ids(d'[n]) :
            Matching(d'.media, [entityType |-> t, entityID |-> id]) = {}

\* The table of a type is a slugged one, and no two types share a table.
LEMMA EntityTables ==
    /\ \A t \in EntityTypes : EntityTable[t] \in SluggedTables
    /\ \A t, u \in EntityTypes : EntityTable[t] = EntityTable[u] => t = u
    /\ SluggedTables \subseteq TableNames /\ "media" \in TableNames \ SluggedTables
  BY DEF EntityTypes, EntityTable, SluggedTables, TableNames

\* Insertions and replacements delete nothing.
LEMMA NothingDeleted ==
    ASSUME WellFormed(d),
           \A k \in SluggedTables :
              \/ d'[k] = d[k]
              \/ \E row : d'[k] = Insert(d[k], row)
              \/ \E i \in Ids(d[k]) : \E row : d'[k] = Put(d[k], i, row)
    PROVE  PicturesGo
<1>1. ASSUME NEW k \in SluggedTables PROVE Ids(d[k]) \subseteq Ids(d'[k])
  <2>1. IsTable(d[k], Row[k]) BY EntityTables DEF WellFormed
  <2>2. \A row : Ids(Insert(d[k], row)) = Ids(d[k]) \cup {NextID(d[k])}
    BY <2>1 DEF IsTable, Insert, Put, NextID, Ids
  <2>3. \A row : \A i \in Ids(d[k]) : Ids(Put(d[k], i, row)) = Ids(d[k])
    BY <2>1 DEF IsTable, Put, Ids
  <2> QED BY <2>2, <2>3
<1> QED BY <1>1, EntityTables DEF PicturesGo

\* A replacement in a slugged table.
LEMMA ReplacedKeeps ==
    ASSUME WellFormed(d), NEW n \in SluggedTables, NEW i \in Ids(d[n]), NEW row,
           d' = [d EXCEPT ![n] = Put(@, i, row)]
    PROVE  PicturesGo
<1>1. n \in DOMAIN d BY EntityTables DEF WellFormed
<1>2. \A k \in SluggedTables : d'[k] = d[k] \/ (k = n /\ d'[k] = Put(d[k], i, row))
  BY <1>1, EntityTables DEF WellFormed
<1> QED BY <1>2, NothingDeleted

\* A deletion takes the pictures along.
LEMMA DeletionSweeps ==
    ASSUME WellFormed(d), NEW t \in EntityTypes, NEW id,
           d'[EntityTable[t]] = Without(d[EntityTable[t]], {id}),
           \A k \in SluggedTables \ {EntityTable[t]} : d'[k] = d[k],
           d'.media = WithoutMedia(t, id)
    PROVE  PicturesGo
<1> DEFINE n == EntityTable[t]
           key == [entityType |-> t, entityID |-> id]
<1>1. IsTable(d[n], Row[n]) /\ IsTable(d.media, Row["media"])
  BY EntityTables DEF WellFormed
<1>2. Ids(d[n]) \ Ids(d'[n]) \subseteq {id} BY <1>1, WithoutFacts
<1>3. Matching(d'.media, key) = {}
  <2>1. /\ Ids(d'.media) = Ids(d.media) \ Matching(d.media, key)
        /\ \A i \in Ids(d'.media) : d'.media.items[i] = d.media.items[i]
    BY <1>1, WithoutFacts DEF WithoutMedia
  <2> QED BY <2>1 DEF Matching
<1>4. ASSUME NEW u \in EntityTypes, NEW i \in Ids(d[EntityTable[u]]) \ Ids(d'[EntityTable[u]])
      PROVE  u = t /\ i = id
  BY <1>2, <1>4, EntityTables
<1> QED BY <1>3, <1>4 DEF PicturesGo

\* The operations on categories, subcategories and products.
LEMMA CatalogSweeps ==
    ASSUME WellFormed(d), CatalogNext
    PROVE  PicturesGo
<1>1. {"categories", "subcategories", "products"} \subseteq SluggedTables
      /\ SluggedTables \subseteq TableNames /\ DOMAIN d = TableNames
  BY DEF WellFormed, TableNames, SluggedTables
<1>2. ASSUME NEW slug, NEW status, NEW id,
             CreateCategory(slug, status) \/ CreateSubcategory(id, slug, status)
             \/ CreateProduct(id, slug, status)
      PROVE  PicturesGo
  BY <1>1, <1>2, NothingDeleted DEF CreateCategory, CreateSubcategory, CreateProduct, Commit
<1>3. ASSUME NEW slug, NEW status, NEW id,
             UpdateCategory(id, slug, status) \/ SetProductStatus(id, status)
             \/ \E p : UpdateSubcategory(id, p, slug, status) \/ UpdateProduct(id, p, slug, status)
      PROVE  PicturesGo
  <2>1. CASE UpdateCategory(id, slug, status)
    BY <1>1, <2>1, ReplacedKeeps DEF UpdateCategory, Commit
  <2>2. CASE SetProductStatus(id, status)
    BY <1>1, <2>2, ReplacedKeeps DEF SetProductStatus, Commit
  <2>3. CASE \E p : UpdateSubcategory(id, p, slug, status)
    BY <1>1, <2>3, ReplacedKeeps DEF UpdateSubcategory, Commit
  <2>4. CASE \E p : UpdateProduct(id, p, slug, status)
    BY <1>1, <2>4, ReplacedKeeps DEF UpdateProduct, Commit
  <2> QED BY <1>3, <2>1, <2>2, <2>3, <2>4
<1>4. /\ {"category", "subcategory", "product"} \subseteq EntityTypes
      /\ EntityTable["category"] = "categories"
      /\ EntityTable["subcategory"] = "subcategories"
      /\ EntityTable["product"] = "products"
      /\ "media" \in TableNames \ SluggedTables
  BY EntityTables DEF EntityTypes, EntityTable
<1>5. ASSUME NEW id, DeleteCategory(id)
      PROVE  PicturesGo
  BY <1>1, <1>4, <1>5, DeletionSweeps DEF DeleteCategory, Commit
<1>6. ASSUME NEW id, DeleteSubcategory(id)
      PROVE  PicturesGo
  BY <1>1, <1>4, <1>6, DeletionSweeps DEF DeleteSubcategory, Commit
<1>7. ASSUME NEW id, DeleteProduct(id)
      PROVE  PicturesGo
  <2>1. "productChars" \notin SluggedTables BY DEF SluggedTables
  <2> QED BY <1>1, <1>4, <1>7, <2>1, DeletionSweeps DEF DeleteProduct, Commit
<1> QED BY <1>2, <1>3, <1>5, <1>6, <1>7 DEF CatalogNext

\* The operations on services, object types and advantages.
LEMMA ContentSweeps ==
    ASSUME WellFormed(d), ContentNext
    PROVE  PicturesGo
<1>1. EntryTables \subseteq SluggedTables /\ SluggedTables \subseteq TableNames
      /\ DOMAIN d = TableNames /\ "media" \in TableNames \ SluggedTables
  BY DEF WellFormed, EntryTables, TableNames, SluggedTables
<1>2. ASSUME NEW n \in EntryTables, NEW slug, NEW status,
             CreateEntry(n, slug, status)
             \/ \E id : UpdateEntry(n, id, slug, status) \/ SetEntryStatus(n, id, status)
      PROVE  PicturesGo
  <2>1. CASE CreateEntry(n, slug, status)
    BY <1>1, <2>1, NothingDeleted DEF CreateEntry, Commit
  <2>2. CASE \E id : UpdateEntry(n, id, slug, status)
    BY <1>1, <2>2, ReplacedKeeps DEF UpdateEntry, Commit
  <2>3. CASE \E id : SetEntryStatus(n, id, status)
    BY <1>1, <2>3, ReplacedKeeps DEF SetEntryStatus, Commit
  <2> QED BY <1>2, <2>1, <2>2, <2>3
<1>3. ASSUME NEW t \in EntityTypes, NEW id, EntityTable[t] \in EntryTables,
             DeleteEntry(EntityTable[t], t, id)
      PROVE  PicturesGo
  BY <1>1, <1>3, DeletionSweeps DEF DeleteEntry, Commit
<1>4. /\ {"service", "object_type", "advantage"} \subseteq EntityTypes
      /\ EntityTable["service"] = "services"
      /\ EntityTable["object_type"] = "objectTypes"
      /\ EntityTable["advantage"] = "advantages"
      /\ EntryTables = {"services", "objectTypes", "advantages"}
  BY DEF EntityTypes, EntityTable, EntryTables
<1>5. ASSUME NEW id, \/ DeleteService(id) \/ DeleteObjectType(id) \/ DeleteAdvantage(id)
      PROVE  PicturesGo
  BY <1>3, <1>4, <1>5 DEF DeleteService, DeleteObjectType, DeleteAdvantage
<1> QED BY <1>2, <1>4, <1>5
        DEF ContentNext, CreateService, UpdateService, SetServiceStatus,
            CreateObjectType, UpdateObjectType, SetObjectTypeStatus,
            CreateAdvantage, UpdateAdvantage, SetAdvantageStatus

\* The other operations delete no entity.
LEMMA OthersSweep ==
    ASSUME WellFormed(d), CharacteristicsNext \/ MediaNext \/ AdminNext
    PROVE  PicturesGo
<1>1. /\ DOMAIN d = TableNames
      /\ {"characteristics", "charValues", "productChars", "media", "admins"}
            \cap SluggedTables = {}
  BY DEF WellFormed, SluggedTables
<1>2. SluggedTables \subseteq TableNames BY DEF TableNames
<1>3. ASSUME CharacteristicsNext PROVE \A k \in SluggedTables : d'[k] = d[k]
  <2>1. ASSUME NEW x, NEW y, NEW z, d' = [d EXCEPT !.characteristics = x, !.charValues = y,
                                                  !.productChars = z]
        PROVE  \A k \in SluggedTables : d'[k] = d[k]
    BY <1>1, <1>2, <2>1
  <2> QED BY <1>1, <1>2, <1>3
      DEF CharacteristicsNext, CreateCharacteristic, UpdateCharacteristic,
          DeleteCharacteristic, CreateCharacteristicValue, UpdateCharacteristicValue,
          DeleteCharacteristicValue, SetProductCharacteristic,
          DeleteProductCharacteristic, Commit
<1>4. ASSUME MediaNext PROVE \A k \in SluggedTables : d'[k] = d[k]
  BY <1>1, <1>2, <1>4 DEF MediaNext, AddMedia, DeleteMedia, SetMainMedia, Commit
<1>5. ASSUME AdminNext PROVE \A k \in SluggedTables : d'[k] = d[k]
  BY <1>1, <1>2, <1>5 DEF AdminNext, SetPasswordHash, Commit
<1> QED BY <1>3, <1>4, <1>5, NothingDeleted

\* No picture of a deleted entity stays in the table, whichever of the six
\* deletions it was (media.go:127, categories.go:150, products.go:179).
THEOREM PicturesGoWithEntity == StoreSpec => MediaGoneWithEntity
<1>1. ASSUME Consistent(d), [StoreNext]_storeVars PROVE [PicturesGo]_storeVars
  <2>1. WellFormed(d) BY <1>1 DEF Consistent
  <2> QED BY <1>1, <2>1, CatalogSweeps, ContentSweeps, OthersSweep DEF StoreNext
<1> QED BY <1>1, StoreConsistent, PTL DEF StoreSpec, MediaGoneWithEntity, PicturesGo

-----------------------------------------------------------------------------
(* The promise to the image files *)

\* What a step does to entities and pictures, as Pictures sees it.
GalleryStep == [Gallery!Next]_(Gallery!vars)

\* Rows of the table u of entities are those of t, updated or not.
SameIds(t, u) == Ids(u) = Ids(t) /\ u.seq = t.seq

\* The pictures of m belong to the same entities in k.
SameOwners(m, k) ==
    /\ SameIds(m, k)
    /\ \A i \in Ids(m) : /\ k.items[i].entityType = m.items[i].entityType
                         /\ k.items[i].entityID = m.items[i].entityID

\* Nothing is created or deleted.
LEMMA GalleryKept ==
    ASSUME \A n \in SluggedTables : SameIds(d[n], d'[n]), SameOwners(d.media, d'.media)
    PROVE  GalleryStep
<1>1. \A t \in EntityTypes : SameIds(d[EntityTable[t]], d'[EntityTable[t]]) BY EntityTables
<1> QED BY <1>1 DEF GalleryStep, SameIds, SameOwners, Gallery!vars

\* An entity gets the next id of its type.
LEMMA GalleryCreates ==
    ASSUME WellFormed(d), NEW t \in EntityTypes, NEW row,
           d'[EntityTable[t]] = Insert(d[EntityTable[t]], row),
           \A n \in SluggedTables \ {EntityTable[t]} : d'[n] = d[n],
           d'.media = d.media
    PROVE  GalleryStep
<1> DEFINE n == EntityTable[t]
<1>1. IsTable(d[n], Row[n]) BY EntityTables DEF WellFormed
<1>2. Ids(d'[n]) = Ids(d[n]) \cup {d[n].seq + 1} /\ d'[n].seq = d[n].seq + 1
  BY <1>1 DEF IsTable, Insert, Put, NextID, Ids
<1>3. \A u \in EntityTypes \ {t} : d'[EntityTable[u]] = d[EntityTable[u]] BY EntityTables
<1>4. Gallery!Create(t) BY <1>2, <1>3 DEF Gallery!Create
<1> QED BY <1>4 DEF GalleryStep, Gallery!Next

\* An entity goes, with its pictures and with no other one.
LEMMA GalleryDeletes ==
    ASSUME WellFormed(d), NEW t \in EntityTypes, NEW id \in Ids(d[EntityTable[t]]),
           d'[EntityTable[t]] = Without(d[EntityTable[t]], {id}),
           \A k \in SluggedTables \ {EntityTable[t]} : d'[k] = d[k],
           d'.media = WithoutMedia(t, id)
    PROVE  GalleryStep
<1> DEFINE n == EntityTable[t]
<1>1. IsTable(d[n], Row[n]) /\ IsTable(d.media, Row["media"])
  BY EntityTables DEF WellFormed
<1>2. Ids(d'[n]) = Ids(d[n]) \ {id} /\ d'[n].seq = d[n].seq BY <1>1, WithoutFacts
<1>3. \A u \in EntityTypes \ {t} : d'[EntityTable[u]] = d[EntityTable[u]] BY EntityTables
<1>4. /\ Ids(d'.media) = {i \in Ids(d.media) : ~(d.media.items[i].entityType = t
                                                 /\ d.media.items[i].entityID = id)}
      /\ \A i \in Ids(d'.media) : d'.media.items[i] = d.media.items[i]
      /\ d'.media.seq = d.media.seq
  BY <1>1, WithoutFacts, MatchingFacts DEF WithoutMedia
<1> DEFINE own == [i \in Ids(d.media) |->
                       <<d.media.items[i].entityType, d.media.items[i].entityID>>]
           own2 == [i \in Ids(d'.media) |->
                       <<d'.media.items[i].entityType, d'.media.items[i].entityID>>]
<1>5. own2 = [i \in {j \in DOMAIN own : own[j] # <<t, id>>} |-> own[i]]
  <2>1. Ids(d'.media) = {j \in DOMAIN own : own[j] # <<t, id>>} BY <1>4
  <2>2. \A i \in Ids(d'.media) : i \in Ids(d.media) /\ own2[i] = own[i] BY <1>4
  <2> QED BY <2>1, <2>2
<1>6. [u \in EntityTypes |-> Ids(d'[EntityTable[u]])] =
        [[u \in EntityTypes |-> Ids(d[EntityTable[u]])] EXCEPT ![t] = @ \ {id}]
  BY <1>2, <1>3
<1>7. [u \in EntityTypes |-> d'[EntityTable[u]].seq] = [u \in EntityTypes |-> d[EntityTable[u]].seq]
  BY <1>2, <1>3
<1>8. Gallery!Delete(t, id) BY <1>4, <1>5, <1>6, <1>7 DEF Gallery!Delete
<1> QED BY <1>8 DEF GalleryStep, Gallery!Next

\* A picture gets the next id; whether it takes the main flag does not matter.
LEMMA GalleryAdds ==
    ASSUME WellFormed(d), NEW m, NEW entityType \in EntityTypes, NEW entityID \in Nat,
           \A k \in SluggedTables : d'[k] = d[k],
           NEW row, row.entityType = entityType, row.entityID = entityID,
           m = Insert(d.media, row), SameOwners(m, d'.media)
    PROVE  GalleryStep
<1> DEFINE new == NextID(d.media)
<1>1. IsTable(d.media, Row["media"]) BY EntityTables DEF WellFormed
<1>2. /\ Ids(m) = Ids(d.media) \cup {new} /\ m.seq = new /\ new \notin Ids(d.media)
      /\ m.items[new] = row /\ \A i \in Ids(d.media) : m.items[i] = d.media.items[i]
  BY <1>1 DEF IsTable, Insert, Put, NextID, Ids
<1>3. \A u \in EntityTypes : d'[EntityTable[u]] = d[EntityTable[u]] BY EntityTables
<1>4. Gallery!AddPicture
  BY <1>2, <1>3 DEF Gallery!AddPicture, SameOwners, SameIds, NextID
<1> QED BY <1>4 DEF GalleryStep, Gallery!Next

\* A picture goes.
LEMMA GalleryDrops ==
    ASSUME WellFormed(d), NEW id \in Ids(d.media),
           \A k \in SluggedTables : d'[k] = d[k], d'.media = Without(d.media, {id})
    PROVE  GalleryStep
<1>1. IsTable(d.media, Row["media"]) BY EntityTables DEF WellFormed
<1>2. /\ Ids(d'.media) = Ids(d.media) \ {id} /\ d'.media.seq = d.media.seq
      /\ \A i \in Ids(d'.media) : d'.media.items[i] = d.media.items[i]
  BY <1>1, WithoutFacts
<1>3. \A u \in EntityTypes : d'[EntityTable[u]] = d[EntityTable[u]] BY EntityTables
<1>4. Gallery!DeletePicture(id) BY <1>2, <1>3 DEF Gallery!DeletePicture
<1> QED BY <1>4 DEF GalleryStep, Gallery!Next

\* An update of a row of entities.
LEMMA GalleryUpdates ==
    ASSUME WellFormed(d), NEW n \in SluggedTables, NEW i \in Ids(d[n]), NEW row,
           d' = [d EXCEPT ![n] = Put(@, i, row)]
    PROVE  GalleryStep
<1>1. n \in DOMAIN d /\ IsTable(d[n], Row[n]) BY EntityTables DEF WellFormed
<1>2. SameIds(d[n], d'[n]) BY <1>1 DEF IsTable, Put, Ids, SameIds
<1>3. \A k \in SluggedTables : SameIds(d[k], d'[k]) BY <1>1, <1>2 DEF SameIds
<1>4. d'.media = d.media BY <1>1, EntityTables DEF WellFormed
<1> QED BY <1>3, <1>4, GalleryKept DEF SameOwners, SameIds

\* The operations on categories, subcategories and products.
LEMMA CatalogGallery ==
    ASSUME WellFormed(d), CatalogNext
    PROVE  GalleryStep
<1>1. {"categories", "subcategories", "products"} \subseteq SluggedTables
      /\ SluggedTables \subseteq TableNames /\ DOMAIN d = TableNames
  BY DEF WellFormed, TableNames, SluggedTables
<1>2. /\ {"category", "subcategory", "product"} \subseteq EntityTypes
      /\ EntityTable["category"] = "categories"
      /\ EntityTable["subcategory"] = "subcategories"
      /\ EntityTable["product"] = "products"
      /\ "media" \in TableNames \ SluggedTables
      /\ "productChars" \notin SluggedTables /\ "productChars" # "media"
  BY EntityTables DEF EntityTypes, EntityTable, SluggedTables
<1>3. ASSUME NEW slug, NEW status, CreateCategory(slug, status)
      PROVE  GalleryStep
  BY <1>1, <1>2, <1>3, GalleryCreates DEF CreateCategory, Commit
<1>4. ASSUME NEW slug, NEW status, NEW id, CreateSubcategory(id, slug, status)
      PROVE  GalleryStep
  BY <1>1, <1>2, <1>4, GalleryCreates DEF CreateSubcategory, Commit
<1>5. ASSUME NEW slug, NEW status, NEW id, CreateProduct(id, slug, status)
      PROVE  GalleryStep
  BY <1>1, <1>2, <1>5, GalleryCreates DEF CreateProduct, Commit
<1>6. ASSUME NEW slug, NEW status, NEW id,
             UpdateCategory(id, slug, status) \/ SetProductStatus(id, status)
             \/ \E p : UpdateSubcategory(id, p, slug, status) \/ UpdateProduct(id, p, slug, status)
      PROVE  GalleryStep
  <2>1. CASE UpdateCategory(id, slug, status)
    BY <1>1, <2>1, GalleryUpdates DEF UpdateCategory, Commit
  <2>2. CASE SetProductStatus(id, status)
    BY <1>1, <2>2, GalleryUpdates DEF SetProductStatus, Commit
  <2>3. CASE \E p : UpdateSubcategory(id, p, slug, status)
    BY <1>1, <2>3, GalleryUpdates DEF UpdateSubcategory, Commit
  <2>4. CASE \E p : UpdateProduct(id, p, slug, status)
    BY <1>1, <2>4, GalleryUpdates DEF UpdateProduct, Commit
  <2> QED BY <1>6, <2>1, <2>2, <2>3, <2>4
<1>7. ASSUME NEW id, DeleteCategory(id) PROVE GalleryStep
  BY <1>1, <1>2, <1>7, GalleryDeletes DEF DeleteCategory, Commit
<1>8. ASSUME NEW id, DeleteSubcategory(id) PROVE GalleryStep
  BY <1>1, <1>2, <1>8, GalleryDeletes DEF DeleteSubcategory, Commit
<1>9. ASSUME NEW id, DeleteProduct(id) PROVE GalleryStep
  BY <1>1, <1>2, <1>9, GalleryDeletes DEF DeleteProduct, Commit
<1> QED BY <1>3, <1>4, <1>5, <1>6, <1>7, <1>8, <1>9 DEF CatalogNext

\* The operations on services, object types and advantages.
LEMMA ContentGallery ==
    ASSUME WellFormed(d), ContentNext
    PROVE  GalleryStep
<1>1. EntryTables \subseteq SluggedTables /\ SluggedTables \subseteq TableNames
      /\ DOMAIN d = TableNames /\ "media" \in TableNames \ SluggedTables
  BY DEF WellFormed, EntryTables, TableNames, SluggedTables
<1>2. /\ {"service", "object_type", "advantage"} \subseteq EntityTypes
      /\ EntityTable["service"] = "services"
      /\ EntityTable["object_type"] = "objectTypes"
      /\ EntityTable["advantage"] = "advantages"
      /\ EntryTables = {"services", "objectTypes", "advantages"}
  BY DEF EntityTypes, EntityTable, EntryTables
<1>3. ASSUME NEW t \in EntityTypes, EntityTable[t] \in EntryTables, NEW slug, NEW status,
             CreateEntry(EntityTable[t], slug, status)
      PROVE  GalleryStep
  BY <1>1, <1>3, GalleryCreates DEF CreateEntry, Commit
<1>4. ASSUME NEW n \in EntryTables, NEW id, NEW status,
             SetEntryStatus(n, id, status) \/ \E slug : UpdateEntry(n, id, slug, status)
      PROVE  GalleryStep
  <2>1. CASE SetEntryStatus(n, id, status)
    BY <1>1, <2>1, GalleryUpdates DEF SetEntryStatus, Commit
  <2>2. CASE \E slug : UpdateEntry(n, id, slug, status)
    BY <1>1, <2>2, GalleryUpdates DEF UpdateEntry, Commit
  <2> QED BY <1>4, <2>1, <2>2
<1>5. ASSUME NEW t \in EntityTypes, NEW id, EntityTable[t] \in EntryTables,
             DeleteEntry(EntityTable[t], t, id)
      PROVE  GalleryStep
  BY <1>1, <1>5, GalleryDeletes DEF DeleteEntry, Commit
<1>6. ASSUME NEW slug, NEW status, \/ CreateService(slug, status)
                                   \/ CreateObjectType(slug, status)
                                   \/ CreateAdvantage(slug, status)
      PROVE  GalleryStep
  BY <1>2, <1>3, <1>6 DEF CreateService, CreateObjectType, CreateAdvantage
<1>7. ASSUME NEW id, \/ DeleteService(id) \/ DeleteObjectType(id) \/ DeleteAdvantage(id)
      PROVE  GalleryStep
  BY <1>2, <1>5, <1>7 DEF DeleteService, DeleteObjectType, DeleteAdvantage
<1> QED BY <1>2, <1>4, <1>6, <1>7
        DEF ContentNext, UpdateService, SetServiceStatus,
            UpdateObjectType, SetObjectTypeStatus, UpdateAdvantage, SetAdvantageStatus

\* The operations on pictures.
LEMMA MediaGallery ==
    ASSUME WellFormed(d), MediaNext
    PROVE  GalleryStep
<1>1. /\ DOMAIN d = TableNames /\ "media" \in TableNames \ SluggedTables
      /\ SluggedTables \subseteq TableNames
  BY EntityTables DEF WellFormed
<1>2. IsTable(d.media, Row["media"]) BY <1>1 DEF WellFormed
<1>3. \A m, a, b, e : SameOwners(m, UnsetMainExcept(m, a, b, e))
  <2> SUFFICES ASSUME NEW m, NEW a, NEW b, NEW e
               PROVE  SameOwners(m, UnsetMainExcept(m, a, b, e))
    OBVIOUS
  <2> QED BY DEF SameOwners, SameIds, UnsetMainExcept, Ids
<1>4. ASSUME NEW entityType \in EntityTypes, NEW entityID \in Nat, NEW isMain,
             AddMedia(entityType, entityID, isMain)
      PROVE  GalleryStep
  <2> DEFINE row == [entityType |-> entityType, entityID |-> entityID, isMain |-> isMain]
             m == Insert(d.media, row)
  <2>1. \A k \in SluggedTables : d'[k] = d[k] BY <1>1, <1>4 DEF AddMedia, Commit
  <2>2. SameOwners(m, d'.media)
    BY <1>1, <1>3, <1>4 DEF AddMedia, Commit, SameOwners, SameIds
  <2> QED BY <2>1, <2>2, GalleryAdds
<1>5. ASSUME NEW id, DeleteMedia(id) PROVE GalleryStep
  BY <1>1, <1>5, GalleryDrops DEF DeleteMedia, Commit
<1>6. ASSUME NEW id, SetMainMedia(id) PROVE GalleryStep
  <2> DEFINE row == [d.media.items[id] EXCEPT !.isMain = TRUE]
             m == Put(d.media, id, row)
  <2>1. \A k \in SluggedTables : d'[k] = d[k] BY <1>1, <1>6 DEF SetMainMedia, Commit
  <2>2. SameOwners(m, d'.media)
    BY <1>1, <1>3, <1>6 DEF SetMainMedia, Commit
  <2>3. SameOwners(d.media, m)
    <3>1. id \in Ids(d.media) BY <1>6 DEF SetMainMedia
    <3>2. d.media.items[id] \in [entityType : EntityTypes, entityID : Nat, isMain : BOOLEAN]
      BY <1>2, <3>1 DEF IsTable, Row
    <3>3. row.entityType = d.media.items[id].entityType /\ row.entityID = d.media.items[id].entityID
      BY <3>2
    <3> HIDE DEF row
    <3>4. Ids(m) = Ids(d.media) /\ m.seq = d.media.seq
          /\ \A i \in Ids(d.media) : m.items[i] = IF i = id THEN row ELSE d.media.items[i]
      BY <1>2, <3>1 DEF IsTable, Put, Ids
    <3> QED BY <3>3, <3>4 DEF SameOwners, SameIds
  <2> QED BY <2>1, <2>2, <2>3, GalleryKept DEF SameOwners, SameIds
<1> QED BY <1>4, <1>5, <1>6, BoundsAssumption DEF MediaNext

\* Characteristics and passwords.
LEMMA OthersGallery ==
    ASSUME WellFormed(d), CharacteristicsNext \/ AdminNext
    PROVE  GalleryStep
<1>1. /\ DOMAIN d = TableNames /\ "media" \in TableNames \ SluggedTables
      /\ SluggedTables \subseteq TableNames
      /\ {"characteristics", "charValues", "productChars", "admins"}
            \cap (SluggedTables \cup {"media"}) = {}
  BY EntityTables DEF WellFormed, SluggedTables
<1>2. CharacteristicsNext => \A k \in SluggedTables \cup {"media"} : d'[k] = d[k]
  BY <1>1
  DEF CharacteristicsNext, CreateCharacteristic, UpdateCharacteristic,
      DeleteCharacteristic, CreateCharacteristicValue, UpdateCharacteristicValue,
      DeleteCharacteristicValue, SetProductCharacteristic,
      DeleteProductCharacteristic, Commit
<1>3. AdminNext => \A k \in SluggedTables \cup {"media"} : d'[k] = d[k]
  BY <1>1 DEF AdminNext, SetPasswordHash, Commit
<1> QED BY <1>2, <1>3, GalleryKept DEF SameOwners, SameIds

\* The handlers of image files may rely on Pictures: an entity takes exactly its
\* own pictures along, ids are issued once, and nothing else moves a picture
\* (media.go:55-135, the cascades of the delete operations).
THEOREM GalleryImplemented == StoreSpec => ImplementsPictures
<1>1. StoreInit => Gallery!Init
  <2>1. ASSUME NEW u, NEW h PROVE \A n \in SluggedTables \cup {"media"} :
                                      EnsureAdmin(EmptyData, u, h)[n] = EmptyTable
    BY DEF EnsureAdmin, EmptyData, TableNames, SluggedTables
  <2>2. StoreInit => \A n \in SluggedTables \cup {"media"} : d[n] = EmptyTable
    BY <2>1 DEF StoreInit, Boot
  <2>3. \A t \in EntityTypes : EntityTable[t] \in SluggedTables BY EntityTables
  <2> QED BY <2>2, <2>3 DEF Gallery!Init, EmptyTable, Ids
<1>2. ASSUME Consistent(d), [StoreNext]_storeVars PROVE [Gallery!Next]_(Gallery!vars)
  <2>1. WellFormed(d) BY <1>2 DEF Consistent
  <2>2. CASE StoreNext
    BY <2>1, <2>2, CatalogGallery, ContentGallery, MediaGallery, OthersGallery
    DEF StoreNext, GalleryStep
  <2>3. CASE UNCHANGED storeVars BY <2>3 DEF storeVars, Gallery!vars
  <2> QED BY <1>2, <2>2, <2>3
<1> QED BY <1>1, <1>2, StoreConsistent, PTL DEF StoreSpec, ImplementsPictures, Gallery!Spec

=============================================================================
