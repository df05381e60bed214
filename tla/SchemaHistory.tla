--------------------------- MODULE SchemaHistory ---------------------------
(***************************************************************************)
(* The statements of DatabaseSchema.cpp: what the migration to each        *)
(* version does to the shape of a database. A shape is a set of triples    *)
(* <<table, kind, name>>: the table itself, its columns, the seeded rows,  *)
(* the values a CHECK accepts, the uniqueness it demands, its indexes and  *)
(* triggers. Columns are named in the tables that some migration rebuilds  *)
(* and where they are added later; those a table is created with and keeps *)
(* are part of the table. An operator has the name of its function.        *)
(***************************************************************************)
EXTENDS Naturals, Sequences, SequencesExt

CurrentSchemaVersion == 35

Things(t, S) == {<<t, x[1], x[2]>> : x \in S}
Of(kind, S) == {kind} \X S
Columns(S) == Of("column", S)
TableOf(t) == Things(t, {<<"table", t>>})

(* CREATE TABLE, with or without IF NOT EXISTS; ALTER TABLE ADD COLUMN,    *)
(* CREATE INDEX or TRIGGER, and the seeding of rows, which fail or do      *)
(* nothing if the thing exists; and the replacement of a table by a copy   *)
(* of it with the columns of S, of which those of F are filled anew.       *)
Create(t, S)     == [op |-> "create",  on |-> t, of |-> Things(t, S), strict |-> FALSE, new |-> {}]
CreateOnce(t, S) == [op |-> "create",  on |-> t, of |-> Things(t, S), strict |-> TRUE,  new |-> {}]
Ensure(t, S)     == [op |-> "extend",  on |-> t, of |-> Things(t, S), strict |-> FALSE, new |-> {}]
AddOnce(t, S)    == [op |-> "extend",  on |-> t, of |-> Things(t, S), strict |-> TRUE,  new |-> {}]
Rebuild(t, S, F) == [op |-> "rebuild", on |-> t, of |-> Things(t, S \cup F), strict |-> TRUE, new |-> Things(t, F)]

Table(t) == Create(t, {})
Add(t, c) == AddOnce(t, Columns({c}))
Index(t, S) == Ensure(t, Of("index", S))

(* Tables whose rows those of other tables refer to: with foreign keys     *)
(* enforced they cannot be dropped.                                        *)
Referenced == {"build", "inventory_record"}

(* What a statement demands of the shape D, and what it makes of it.       *)
Executable(D, fk, s) ==
  LET exists == TableOf(s.on) \subseteq D
  IN  \/ s.op = "create"  /\ (s.strict => ~exists)
      \/ s.op = "extend"  /\ exists /\ (s.strict => s.of \cap D = {})
      \/ s.op = "rebuild" /\ exists /\ s.of \ s.new \subseteq D /\ ~(fk /\ s.on \in Referenced)

After(D, s) ==
  IF s.op = "create" /\ TableOf(s.on) \subseteq D THEN D
  ELSE (IF s.op = "rebuild" THEN {x \in D : x[1] # s.on} ELSE D) \cup TableOf(s.on) \cup s.of

(* A sequence of statements stops at the first that fails.                 *)
Runs(D, fk, seq) ==
  FoldLeft(LAMBDA r, s : [ok |-> r.ok /\ Executable(r.shape, fk, s), shape |-> After(r.shape, s)],
           [ok |-> TRUE, shape |-> D], seq)
-----------------------------------------------------------------------------
createWorkspaceTable == <<Table("workspace")>>
createVersion1Schema == createWorkspaceTable

createColorTable == <<Table("color")>>
createPartCategoryTable == <<Table("part_category")>>
createStorageLocationTypeTable == <<Table("storage_location_type")>>
createStorageLocationTable == <<Table("storage_location")>>

(* Bag and Box were added to the list after databases had been seeded.     *)
seedStorageLocationTypes == <<Ensure("storage_location_type", Of("row", {"Area", "Bag", "Box"}))>>

migrateVersion1ToVersion2 ==
  createColorTable \o createPartCategoryTable \o createStorageLocationTypeTable
    \o createStorageLocationTable \o seedStorageLocationTypes

createPartTable == <<Table("part")>>

InventoryRecordColumns ==
  Columns({"id", "workspace_id", "part_id", "color_id", "storage_location_id", "condition",
           "ownership_type", "quantity", "created_utc", "modified_utc"})

createInventoryRecordTable ==
  <<Create("inventory_record", InventoryRecordColumns \cup {<<"unique", "part, place">>})>>

createInventoryIndexes ==
  <<Index("part", {"idx_part_category"}),
    Index("inventory_record", {"idx_inventory_workspace", "idx_inventory_part",
                               "idx_inventory_storage_location"})>>

migrateVersion2ToVersion3 == createPartTable \o createInventoryRecordTable \o createInventoryIndexes

migrateVersion3ToVersion4 == <<Add("part", "material")>>

createInventoryMovementTable == <<Table("inventory_movement")>>
createInventoryMovementIndexes ==
  <<Index("inventory_movement",
      {"idx_inventory_movement_workspace", "idx_inventory_movement_part",
       "idx_inventory_movement_record", "idx_inventory_movement_created"})>>

migrateVersion4ToVersion5 == createInventoryMovementTable \o createInventoryMovementIndexes

BuildColumns ==
  Columns({"id", "workspace_id", "build_type", "name", "set_number", "status", "notes",
           "created_utc", "modified_utc"})

(* The table that earlier releases made did not accept Cancelled.          *)
createBuildTable == <<Create("build", BuildColumns \cup {<<"accepts", "Cancelled">>})>>

createBuildRequirementTable == <<Table("build_requirement")>>

AllocationColumns ==
  Columns({"id", "build_id", "inventory_record_id", "part_id", "color_id", "storage_location_id",
           "quantity_allocated", "created_utc", "modified_utc"})

createBuildAllocationTable ==
  <<Create("build_allocation", AllocationColumns \cup {<<"unique", "build, record">>})>>

createBuildIndexes ==
  <<Index("build", {"idx_build_workspace"}),
    Index("build_requirement", {"idx_build_requirement_build", "idx_build_requirement_part_color"}),
    Index("build_allocation", {"idx_build_allocation_build", "idx_build_allocation_inventory"})>>

migrateVersion5ToVersion6 ==
  createBuildTable \o createBuildRequirementTable \o createBuildAllocationTable \o createBuildIndexes

migrateVersion6ToVersion7 == <<Add("build", "inventory_mode")>>

migrateVersion7ToVersion8 == <<Add("build_requirement", "quantity_pulled")>>

createSetCatalogTable ==
  <<Table("set_catalog"),
    Index("set_catalog", {"idx_set_catalog_number", "idx_set_catalog_year", "idx_set_catalog_theme"})>>

migrateVersion8ToVersion9 == createSetCatalogTable

migrateVersion9ToVersion10 == <<Add("build", "is_active"), Index("build", {"idx_build_workspace_active"})>>

(* Only a table that does not accept Cancelled is rebuilt.                 *)
BuildAccepts(D, value) == <<"build", "accepts", value>> \in D

migrateVersion10ToVersion11 ==
  <<Rebuild("build", BuildColumns \cup Columns({"inventory_mode", "is_active"}), {<<"accepts", "Cancelled">>})>>
    \o createBuildIndexes \o <<Index("build", {"idx_build_workspace_active"})>>

createExternalColorMappingTable ==
  <<Table("external_color_mapping"),
    Index("external_color_mapping", {"idx_external_color_mapping_provider_status"})>>
createExternalPartMappingTable ==
  <<Table("external_part_mapping"),
    Index("external_part_mapping", {"idx_external_part_mapping_provider_status"})>>

migrateVersion11ToVersion12 == createExternalColorMappingTable \o createExternalPartMappingTable

createPartRelationshipTable ==
  <<Table("part_relationship"),
    Index("part_relationship", {"idx_part_relationship_parent", "idx_part_relationship_child",
                                "idx_part_relationship_source_type"})>>
createPartAliasTable ==
  <<Table("part_alias"), Index("part_alias", {"idx_part_alias_part", "idx_part_alias_source_type"})>>

migrateVersion12ToVersion13 == createPartRelationshipTable \o createPartAliasTable

createExternalPartIdentifierTable ==
  <<Table("external_part_identifier"),
    Index("external_part_identifier", {"idx_external_part_identifier_lookup"})>>

migrateVersion13ToVersion14 == createExternalPartIdentifierTable

(* The table that earlier releases made had no origin.                     *)
createManufacturerTable ==
  <<Create("manufacturer", Columns({"origin"})), Index("manufacturer", {"idx_manufacturer_active_name"})>>
seedManufacturers == <<Ensure("manufacturer", Of("row", {"LEGO", "NEXUS", "MANNIDOO"}))>>

migrateVersion14ToVersion15 ==
  createManufacturerTable \o seedManufacturers \o
    <<Add("inventory_record", "manufacturer_id"),
      Index("inventory_record", {"idx_inventory_manufacturer"}),
      Ensure("inventory_record", Of("trigger", {"trg_inventory_default_manufacturer"}))>>

(* The trigger goes with the old table: manufacturer_id is required now.   *)
migrateVersion15ToVersion16 ==
  <<Rebuild("inventory_record", InventoryRecordColumns \cup Columns({"manufacturer_id"}),
            {<<"unique", "part, place, manufacturer">>})>>
    \o createInventoryIndexes \o <<Index("inventory_record", {"idx_inventory_manufacturer"})>>

DefaultManufacturerOfBuilds == Ensure("build", Of("trigger", {"trg_build_default_manufacturer"}))

migrateVersion16ToVersion17 ==
  <<Add("build", "manufacturer_id"), Index("build", {"idx_build_manufacturer"}),
    DefaultManufacturerOfBuilds>>

migrateVersion17ToVersion18 ==
  <<Table("build_part_provenance"), Index("build_part_provenance", {"idx_build_part_provenance_build"})>>

migrateVersion18ToVersion19 == <<Add("build_requirement", "quantity_released")>>

migrateVersion19ToVersion20 == <<Table("external_part_identifier_lookup")>>

migrateVersion20ToVersion21 == <<Ensure("storage_location_type", Of("row", {"Bag"}))>>

(* No table refers to build_allocation, so it is replaced as it is.        *)
migrateVersion21ToVersion22 ==
  <<Add("build_requirement", "substitute_part_id"), Add("build_requirement", "substitute_color_id"),
    Rebuild("build_allocation", AllocationColumns,
            Columns({"build_requirement_id"}) \cup {<<"unique", "requirement, record">>}),
    Index("build_allocation", {"idx_build_allocation_build", "idx_build_allocation_inventory",
                               "idx_build_allocation_requirement"})>>

createMinifigCatalogTables ==
  <<Table("minifig_catalog"), Table("minifig_external_identifier"),
    Index("minifig_catalog", {"idx_minifig_catalog_active_name"}),
    Index("minifig_external_identifier", {"idx_minifig_identifier_catalog_active"})>>

migrateVersion23ToVersion24 == createMinifigCatalogTables

createThemeCatalogTables ==
  <<Table("theme_catalog"), Table("theme_external_identifier"), Table("minifig_theme"),
    Index("theme_catalog", {"idx_theme_parent_active", "idx_theme_active_name"}),
    Index("theme_external_identifier", {"idx_theme_identity_provider"}),
    Index("minifig_theme", {"idx_minifig_theme_theme", "idx_minifig_theme_minifig"})>>

migrateVersion24ToVersion25 == createThemeCatalogTables

createMinifigCatalogPartTable ==
  <<Table("minifig_catalog_part"),
    Index("minifig_catalog_part", {"idx_minifig_catalog_part_minifig", "idx_minifig_catalog_part_identity"})>>

migrateVersion25ToVersion26 == createMinifigCatalogPartTable

(* Mutant: a column that was added later is left out.                      *)
RebuildForgetsActive ==
  <<Rebuild("build", BuildColumns \cup Columns({"inventory_mode", "manufacturer_id"})
                       \cup {<<"accepts", "Cancelled">>},
            Columns({"minifig_catalog_id"}) \cup {<<"accepts", "Minifig">>}),
    Index("build", {"idx_build_workspace", "idx_build_manufacturer", "idx_build_minifig_catalog"}),
    DefaultManufacturerOfBuilds>>
(* idx_build_workspace_active is not made again.                           *)
migrateVersion26ToVersion27 ==
  <<Rebuild("build", BuildColumns \cup Columns({"inventory_mode", "is_active", "manufacturer_id"})
                       \cup {<<"accepts", "Cancelled">>},
            Columns({"minifig_catalog_id"}) \cup {<<"accepts", "Minifig">>}),
    Index("build", {"idx_build_workspace", "idx_build_manufacturer", "idx_build_minifig_catalog"}),
    DefaultManufacturerOfBuilds>>

createSetCatalogPartTable ==
  <<Table("set_catalog_part"),
    Index("set_catalog_part", {"idx_set_catalog_part_set", "idx_set_catalog_part_identity"})>>

migrateVersion27ToVersion28 ==
  createSetCatalogPartTable \o <<Add("build", "set_catalog_id"), Index("build", {"idx_build_set_catalog_id"})>>

(* Mutant: the column is taken to be there.                                *)
OriginAssumed == <<>>
(* The column is looked for first: a new database has it.                  *)
migrateVersion28ToVersion29 == <<Ensure("manufacturer", Columns({"origin"}))>>

migrateVersion29ToVersion30 ==
  <<Add("storage_location", "allows_inventory"), Add("storage_location", "allows_collection"),
    Index("storage_location", {"idx_storage_location_workspace_identity"}),
    Index("build", {"idx_build_workspace_identity"}),
    CreateOnce("collection_item", {}),
    AddOnce("collection_item", Of("index",
      {"idx_collection_workspace_type_active", "idx_collection_workspace_state_active",
       "idx_collection_workspace_location_active", "idx_collection_set_catalog",
       "idx_collection_minifig_catalog", "idx_collection_source_build"}))>>

migrateVersion30ToVersion31 ==
  <<Add("collection_item", "condition"), Add("collection_item", "completeness"),
    AddOnce("collection_item", Of("index", {"idx_collection_workspace_condition_active",
                                            "idx_collection_workspace_completeness_active"}))>>

migrateVersion31ToVersion32 ==
  <<CreateOnce("user_part_reference_entry", {}),
    AddOnce("user_part_reference_entry", Of("index", {"idx_user_part_reference_destination"}))>>

createSetInventoryRevisionTables ==
  <<Table("set_inventory_revision"),
    Index("set_inventory_revision",
      {"idx_set_inventory_one_preferred", "idx_set_inventory_preferred", "idx_set_inventory_history"}),
    Table("set_inventory_part"),
    Index("set_inventory_part", {"idx_set_inventory_part_revision", "idx_set_inventory_part_reverse"}),
    Table("set_inventory_minifig"),
    Index("set_inventory_minifig", {"idx_set_inventory_minifig_revision", "idx_set_inventory_minifig_reverse"}),
    Table("set_inventory_contained_set"),
    Index("set_inventory_contained_set",
      {"idx_set_inventory_contained_revision", "idx_set_inventory_contained_reverse"})>>

migrateVersion32ToVersion33 == createSetInventoryRevisionTables

createPartElementIdentifierTable ==
  <<Table("part_element_identifier"),
    Index("part_element_identifier",
      {"idx_part_element_part_color", "idx_part_element_design", "idx_part_element_provider_active"})>>

migrateVersion33ToVersion34 == createPartElementIdentifierTable

migrateVersion34ToVersion35 ==
  <<CreateOnce("remote_mutation_receipt", {}),
    AddOnce("remote_mutation_receipt", Of("index",
      {"idx_remote_mutation_receipt_committed_utc", "idx_remote_mutation_receipt_workspace"}))>>

(* The statements that take a database of version v to version v + 1.      *)
Migration ==
  [v \in 0..(CurrentSchemaVersion - 1) |->
     CASE v = 0 -> createVersion1Schema
       [] v = 1 -> migrateVersion1ToVersion2     [] v = 2 -> migrateVersion2ToVersion3
       [] v = 3 -> migrateVersion3ToVersion4     [] v = 4 -> migrateVersion4ToVersion5
       [] v = 5 -> migrateVersion5ToVersion6     [] v = 6 -> migrateVersion6ToVersion7
       [] v = 7 -> migrateVersion7ToVersion8     [] v = 8 -> migrateVersion8ToVersion9
       [] v = 9 -> migrateVersion9ToVersion10    [] v = 10 -> migrateVersion10ToVersion11
       [] v = 11 -> migrateVersion11ToVersion12  [] v = 12 -> migrateVersion12ToVersion13
       [] v = 13 -> migrateVersion13ToVersion14  [] v = 14 -> migrateVersion14ToVersion15
       [] v = 15 -> migrateVersion15ToVersion16  [] v = 16 -> migrateVersion16ToVersion17
       [] v = 17 -> migrateVersion17ToVersion18  [] v = 18 -> migrateVersion18ToVersion19
       [] v = 19 -> migrateVersion19ToVersion20  [] v = 20 -> migrateVersion20ToVersion21
       [] v = 21 -> migrateVersion21ToVersion22  [] v = 22 -> <<>>
       [] v = 23 -> migrateVersion23ToVersion24  [] v = 24 -> migrateVersion24ToVersion25
       [] v = 25 -> migrateVersion25ToVersion26  [] v = 26 -> migrateVersion26ToVersion27
       [] v = 27 -> migrateVersion27ToVersion28  [] v = 28 -> migrateVersion28ToVersion29
       [] v = 29 -> migrateVersion29ToVersion30  [] v = 30 -> migrateVersion30ToVersion31
       [] v = 31 -> migrateVersion31ToVersion32  [] v = 32 -> migrateVersion32ToVersion33
       [] v = 33 -> migrateVersion33ToVersion34  [] v = 34 -> migrateVersion34ToVersion35]
=============================================================================
