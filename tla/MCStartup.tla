------------------------------ MODULE MCStartup -----------------------------
\* Instances of Startup for TLC: indexes of two collections.
EXTENDS Startup

\* "product" is the name sde_blueprints.json declares, "product_type_id_1" the one
\* migration 0010 leaves to pymongo.
Names == {"product_type_id_1", "product", "scraped_at", "typeID", "by_hand"}

Over(keys) == [keys |-> keys, expireAfterSeconds |-> 0]
Expiring(keys) == [keys |-> keys, expireAfterSeconds |-> 7200]
ByProduct == Over("product_type_id")
Specs == {ByProduct, Over("scraped_at"), Expiring("scraped_at"), Over("typeID"), Over("name")}

Entry(n, spec) == [name |-> n, spec |-> spec]

ByHand == [n \in Names |-> IF n = "by_hand" THEN Over("name") ELSE NoSpec]

\* typeID is declared twice, as two files do for industryActivityMaterials; the second
\* release changes one index and drops the other, the third changes it back.
ThreeReleases ==
  <<<<Entry("typeID", Over("typeID")), Entry("typeID", Over("typeID")),
      Entry("scraped_at", Over("scraped_at"))>>,
    <<Entry("scraped_at", Expiring("scraped_at"))>>,
    <<Entry("scraped_at", Over("scraped_at"))>>>>

\* The second release adds the migrations from 0007 on.
ThreeShipped == <<3, 6, 6>>
AllShipped == <<6>>

\* The entry of sde_blueprints.json beside one of the others.
ShippedRelease ==
  <<<<Entry("typeID", Over("typeID")), Entry("product", ByProduct)>>>>

=============================================================================
