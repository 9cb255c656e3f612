---------------------------- MODULE MCMigrations ----------------------------
\* Instances of Migrations for TLC.
EXTENDS Migrations

OneName == {"by_product"}
ByProduct == [keys |-> "sde_blueprints.product_type_id", expireAfterSeconds |-> 0]
OneSpec == {ByProduct}
NoIndexes == [n \in OneName |-> NoSpec]

=============================================================================
