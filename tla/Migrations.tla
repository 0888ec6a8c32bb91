----------------------------- MODULE Migrations -----------------------------
(***************************************************************************)
(* The registry of schema migrations (db/schema/registry.py MIGRATIONS,    *)
(* db/schema/_constants.py, db/schema/migrations/): what the statements of *)
(* each version do to tables and columns, and which of them write rows.    *)
(*                                                                         *)
(* A version is a script, run statement by statement outside any           *)
(* transaction (executescript), and a callable, run by conn.execute, whose *)
(* first row write opens a transaction.  Indexes, seeds' texts and the     *)
(* values a backfill computes are left out; a version that only adds       *)
(* indexes is empty.  A callable's row writes that share one transaction   *)
(* and no statement on columns between them are one write.                 *)
(***************************************************************************)
EXTENDS Integers, Sequences

Statement(op, table, columns) == [op |-> op, table |-> table, columns |-> columns]

\* CREATE TABLE IF NOT EXISTS, with those of its columns that later versions
\* also add, test or drop.
CreateTableWith(table, columns) == Statement("create", table, columns)
CreateTable(table) == CreateTableWith(table, {})
CreateTables(tables) == [i \in DOMAIN tables |-> CreateTable(tables[i])]
\* ALTER TABLE ... ADD COLUMN, which fails on a column that is there.
AddColumn(table, column) == Statement("add", table, {column})
\* PRAGMA table_info, then the ALTER TABLE only if it is needed.
GuardAddColumn(table, column) == Statement("guard_add", table, {column})
GuardDropColumn(table, column) == Statement("guard_drop", table, {column})
GuardDropTable(table) == Statement("guard_drop", table, {""})
GuardAddAll(table, columns) ==
    [i \in DOMAIN columns |-> GuardAddColumn(table, columns[i])]
GuardDropAll(table, columns) ==
    [i \in DOMAIN columns |-> GuardDropColumn(table, columns[i])]
\* Row writes: always made; made only where there are rows to treat; made only
\* while a column is still there; and those of a script, which can be repeated.
Write(table) == Statement("write", table, {})
Backfill(table, columns) == Statement("backfill", table, columns)
WriteWhile(table, column) == Statement("write_while", table, {column})
Update(table) == Statement("update", table, {})
\* executescript inside a callable commits before its first statement.
Commit == Statement("commit", "", {})
\* The recreate-and-copy pattern; SkipIf leaves the callable when the table is
\* missing or has the column (here: the CHECK constraint) already.
SkipIf(table, column) == Statement("skip_if", table, {column})
Rebuild(table, copy, columns) ==
    << Commit, Statement("create_new", copy, {}), Update(copy),
       Statement("drop", table, {}),
       [op |-> "rename", table |-> copy, to |-> table, columns |-> columns] >>

(***************************************************************************)
(* The scripts.                                                            *)
(***************************************************************************)
InitialSchema ==
    << CreateTable("events"), CreateTableWith("orders", {"delivery_phone"}),
       CreateTable("inventory"), CreateTable("products"), CreateTable("schema_version") >>
EventsLoggedBy == << AddColumn("events", "logged_by") >>
StaffAndPeopleSchema == CreateTables(<< "staff", "event_people" >>)
PhotoPathAndSeed == << AddColumn("products", "photo_path") >>
ProductCodeAndCategoriesSchema ==
    << AddColumn("products", "product_code"), CreateTable("categories") >>
ProductCatalogPhotosSchema == CreateTables(<< "product_catalog_photos" >>)
PhotosTableAndPhotoIdsSchema ==
    << AddColumn("categories", "icon"), AddColumn("categories", "position"),
       CreateTable("photos"), AddColumn("products", "photo_id"),
       AddColumn("product_catalog_photos", "photo_id") >>
EquipmentEvents == << Update("events") >>
OrdersAmountPaid == << AddColumn("orders", "amount_paid") >>
OrderPhotosSchema == CreateTables(<< "order_photos" >>)
OrderItemsAndPaymentTransactionsSchema ==
    CreateTables(<< "order_items", "payment_transactions" >>)
PerItemBirthdayAndPhotoLinkSchema ==
    << AddColumn("order_items", "is_birthday"), AddColumn("order_items", "age"),
       AddColumn("order_photos", "work_item_id") >>
AppConfigAndOrderSourceSchema == << CreateTable("app_config"), AddColumn("orders", "source") >>
ServerLogsAndTriggersSchema == CreateTables(<< "server_logs", "log_triggers" >>)
ChecklistSchema == CreateTables(<< "checklist_templates", "checklist_entries" >>)
OrderHistorySchema == CreateTables(<< "order_history" >>)
ShippingFeeAndExtrasSchema ==
    << AddColumn("orders", "shipping_fee"), AddColumn("order_items", "is_extra"),
       AddColumn("order_items", "is_gift") >>
WorkTicketPrintedAtSchema == << AddColumn("orders", "work_ticket_printed_at") >>
KnowledgeBaseSchema == CreateTables(<< "knowledge_entries", "knowledge_entry_photos" >>)
ProductAttributesSchema ==
    CreateTables(<< "product_attributes", "product_attribute_values" >>)
OrderItemsAttributesSchema == << AddColumn("order_items", "attributes") >>
ProductStockSchema == CreateTables(<< "product_stock", "stock_movements" >>)
CatalogPhotoTagsSchema == CreateTables(<< "catalog_photo_tags" >>)
ProductPriceChipsSchema == CreateTables(<< "product_price_chips" >>)
ProductAttributeOptionsSchema == CreateTables(<< "product_attribute_options" >>)
PrintLogAndPrintedBySchema == CreateTables(<< "print_log" >>)
ReconciliationsSchema ==
    << CreateTable("reconciliation_sessions"),
       CreateTableWith("reconciliation_lines", {"waste_reason"}) >>
ReconciliationSaleRowsSchema ==
    << CreateTableWith("reconciliation_sale_rows", {"linked_order_refs"}) >>
StockLotsAndItemsSchema == CreateTables(<< "stock_lots", "inventory_items" >>)
PublicOrderCodeSchema == << AddColumn("orders", "public_order_code") >>
OrderIncidentOrderIdSchema == << AddColumn("events", "order_id") >>
EventPhotosSchema == CreateTables(<< "event_photos" >>)
EventHistorySchema == CreateTables(<< "event_history" >>)
AccountingSchema == CreateTables(<< "accounts", "journal_entries", "journal_lines" >>)
ExpenseCategoriesSchema == CreateTables(<< "expense_categories" >>)
CashDrawerSchema ==
    << CreateTableWith("cash_drawer",
           {"closing_balance", "counted_opening_balance", "reconciled"}) >>
CashDrawerJournalEntriesSchema == CreateTables(<< "cash_drawer_journal_entries" >>)
JournalSyncFailureLogSchema == CreateTables(<< "journal_sync_failure_log" >>)
NegativeBalanceSchema == CreateTables(<< "negative_balance" >>)
CostHistorySchema == CreateTables(<< "cost_history" >>)
CustomersSchema == << CreateTableWith("customers", {"search_name"}) >>
CustomerPhonesSchema == CreateTables(<< "customer_phones" >>)
CustomerYearSummarySchema == CreateTables(<< "customer_year_summary" >>)
OrdersAcknowledgedAt == << AddColumn("orders", "acknowledged_at") >>
UsersSchema ==
    << CreateTableWith("users", {"role_check", "staff_id", "force_password_change"}) >>
AuditLogSchema == CreateTables(<< "audit_log" >>)
SessionsSchema == << CreateTableWith("sessions", {"staff_id"}) >>
BlanksSchema ==
    CreateTables(<< "blanks", "product_blank_bom", "blank_stock", "blank_stock_log" >>)
OrderItemBlanksSchema == CreateTables(<< "order_item_blanks" >>)
MessageTemplatesSchema == CreateTables(<< "message_templates" >>)
AddressLibrarySchema == CreateTables(<< "address_library", "customer_addresses" >>)
PaymentTransactionPhotosSchema == CreateTables(<< "payment_transaction_photos" >>)

(***************************************************************************)
(* The callables.                                                          *)
(***************************************************************************)
None == << >>
SeedProducts == << Write("products") >>
AssignCodes == << Write("products") >>
UpdateCategories == << Write("products") >>
SeedVariants == << Write("products") >>
MigratePhotos == << Backfill("photos", {}) >>
ItemsAndPaymentsOfOrders == << Backfill("orders", {"amount_paid"}) >>
SeedOrderSources == << Write("app_config") >>
StaffAndCreatedBy == << Write("staff"), AddColumn("orders", "created_by") >>
FixStaffNames == << Write("staff") >>
SeedChecklist == << Write("checklist_templates") >>
SeedShippingAndExtras == << Write("app_config") >>
SeedProductAttributes == << Write("product_attributes") >>
RutTienToggle == << Write("product_attributes") >>
TienRutRename == << Write("payment_transactions") >>
TrungBay == << Write("product_attributes") >>
SeedCatalogTags == << Write("app_config") >>
CascadeAndReseed ==
    Rebuild("catalog_photo_tags", "catalog_photo_tags_new", {}) \o << Write("app_config") >>
AddPinSupport == GuardAddAll("knowledge_entries", << "pinned", "pinned_at" >>)
EnumAttributes == << Write("product_attributes") >>
PrintTracking == << GuardAddColumn("orders", "work_ticket_printed_by") >>
LineWasteReason == << GuardAddColumn("reconciliation_lines", "waste_reason") >>
ChipAwareInventory ==
    GuardAddAll("stock_movements", << "lot_id", "price_chip_id" >>)
    \o << GuardAddColumn("order_items", "price_chip_id"),
          GuardAddColumn("reconciliation_lines", "price_chip_id"),
          Backfill("stock_lots", {}), GuardDropTable("product_stock") >>
PriceBucketConsolidation == << Backfill("stock_lots", {}) >>
AccessoryProducts == << Write("categories") >>
BackfillPaymentSource == << Backfill("events", {}) >>
EventHistoryAndSoftDelete ==
    << Commit >> \o EventHistorySchema
    \o GuardAddAll("events", << "deleted_at", "deleted_by" >>)
    \o << Backfill("events", {"logged_by", "deleted_at"}) >>
seed_chart_of_accounts == << Write("accounts") >>
backfill_expense_journal_entries == << Backfill("journal_entries", {}) >>
backfill_payment_transaction_journal_entries == << Backfill("journal_lines", {}) >>
backfill_delivered_order_journal_entries == << Backfill("journal_lines", {}) >>
DoubleEntryAccounting ==
    << Commit >> \o AccountingSchema \o seed_chart_of_accounts
    \o backfill_expense_journal_entries
    \o backfill_payment_transaction_journal_entries
    \o backfill_delivered_order_journal_entries
backfill_order_items_cost_at_sale == << Backfill("order_items", {"cost_at_sale"}) >>
CostHistoryAndCostAtSale ==
    << Commit >> \o CostHistorySchema
    \o << GuardAddColumn("order_items", "cost_at_sale") >>
    \o backfill_order_items_cost_at_sale
FixOldExpenseJournal == << Backfill("journal_entries", {}) >>
FixStaleCogsEntries == seed_chart_of_accounts \o << Backfill("journal_entries", {}) >>
FixInventoryPurchaseEntries ==
    << Backfill("journal_entries", {}) >> \o backfill_expense_journal_entries
BusShippingBackfill == seed_chart_of_accounts \o << Backfill("journal_entries", {}) >>
JournalTransactionDate == << GuardAddColumn("journal_entries", "transaction_date") >>
backfill_journal_transaction_date == << Write("journal_entries") >>
StaffAdvancesAsLiabilities == << Backfill("accounts", {}) >>
PaymentInvalidation ==
    GuardAddAll("payment_transactions", << "invalidated_at", "invalidated_by" >>)
UtcTimestamps == << Write("orders") >>
CustomersAndOrderLink ==
    << GuardAddColumn("orders", "customer_id"), Write("orders") >>
CustomersFromOrders == << Backfill("customers", {}) >>
PhonesOfCustomers == << Backfill("customer_phones", {}) >>
DeduplicateCustomers == << Backfill("customers", {}) >>
YearSummaryOfCustomers == << Write("customer_year_summary") >>
CustomerSearchName ==
    << GuardAddColumn("customers", "search_name"), Backfill("customers", {"search_name"}) >>
NegativeBalanceTable == << Commit >> \o NegativeBalanceSchema
RepairZeroCogs == seed_chart_of_accounts \o backfill_order_items_cost_at_sale
DeliveryPhone == << GuardAddColumn("orders", "delivery_phone") >>
FailureLogTable == << Commit >> \o JournalSyncFailureLogSchema
repair_null_customer_links == << Backfill("customers", {"search_name"}) >>
UsersTable == << Write("users") >>
\* The copy has no force_password_change either, which version 90 adds again.
UsersRoleCheck ==
    << SkipIf("users", "role_check"), GuardAddColumn("users", "staff_id") >>
    \o Rebuild("users", "users_new", {"role_check", "staff_id"})
LowercaseUsernames == << Backfill("users", {}) >>
PrimaryCustomerPhones == << Write("customer_phones") >>
BankSubAccounts ==
    seed_chart_of_accounts \o << GuardAddColumn("payment_transactions", "payment_source") >>
StaffIdColumns ==
    << GuardAddColumn("users", "staff_id"), GuardAddColumn("sessions", "staff_id"),
       Backfill("users", {"staff_id"}) >>
StaffNameOfEvents == << GuardAddColumn("events", "staff_name") >>
StaffNameOfOrders ==
    GuardAddAll("orders", << "created_staff_name", "work_ticket_printed_staff_name" >>)
DropAmountPaid == << GuardDropColumn("orders", "amount_paid") >>
BlankOfItem == << GuardAddColumn("order_items", "blank_id") >>
BlanksOfItem ==
    << Commit >> \o OrderItemBlanksSchema
    \o << Backfill("order_item_blanks", {}), GuardDropColumn("order_items", "blank_id") >>
AssignedPrice == << GuardAddColumn("order_items", "assigned_price") >>
ExpenseCategoriesTable ==
    << Commit >> \o ExpenseCategoriesSchema \o seed_chart_of_accounts
    \o << Write("expense_categories") >>
DeliverySchedule ==
    GuardAddAll("orders",
                << "latitude", "longitude", "google_maps_url", "delivery_time_slot" >>)
AssignedStaff == << GuardAddColumn("orders", "assigned_staff_id") >>
ForcePasswordChange == << GuardAddColumn("users", "force_password_change") >>
DrawerLinks == << <<"payment_transactions", "cash_drawer_id">>, <<"events", "cash_drawer_id">> >>
CashDrawerTable ==
    << Commit >> \o CashDrawerSchema
    \o [i \in DOMAIN DrawerLinks |-> GuardAddColumn(DrawerLinks[i][1], DrawerLinks[i][2])]
CashSubAccounts == seed_chart_of_accounts \o << Backfill("journal_entries", {}) >>
RenameQuyToQuay == << Write("journal_entries") >>
TienRutColumns == GuardAddAll("cash_drawer", << "tien_rut_in", "tien_rut_out" >>)
Accumulators ==
    << "cash_sales", "tien_rut_in", "tien_rut_out", "owner_in", "owner_out", "cash_expenses" >>
JournalBalance ==
    << GuardAddColumn("cash_drawer", "closing_balance"), Commit >>
    \o CashDrawerJournalEntriesSchema
    \o << WriteWhile("cash_drawer", "cash_sales") >>
    \o GuardDropAll("cash_drawer", Accumulators)
    \o [i \in DOMAIN DrawerLinks |-> GuardDropColumn(DrawerLinks[i][1], DrawerLinks[i][2])]
CountedOpeningBalance ==
    << GuardAddColumn("cash_drawer", "counted_opening_balance"), Write("cash_drawer") >>
BreakdownSnapshot ==
    << Commit, CreateTable("cash_drawer_breakdown_snapshot"),
       Backfill("cash_drawer_breakdown_snapshot", {}) >>
LinkedOrderRefs == << GuardAddColumn("reconciliation_sale_rows", "linked_order_refs") >>
Reconciled == << GuardAddColumn("cash_drawer", "reconciled") >>
SeedMessageTemplates == << Write("message_templates") >>
BackfillAddressLibrary == << Backfill("address_library", {}) >>

(***************************************************************************)
(* MIGRATIONS.                                                             *)
(***************************************************************************)
Migration(script, callable) == [script |-> script, callable |-> callable]
VersionsTo30 ==
    << Migration(InitialSchema, None),
       Migration(EventsLoggedBy \o StaffAndPeopleSchema, None),
       Migration(PhotoPathAndSeed, SeedProducts),
       Migration(ProductCodeAndCategoriesSchema, AssignCodes),
       Migration(None, UpdateCategories), Migration(None, SeedVariants),
       Migration(ProductCatalogPhotosSchema, None),
       Migration(PhotosTableAndPhotoIdsSchema, MigratePhotos),
       Migration(EquipmentEvents, None), Migration(OrdersAmountPaid, None),
       Migration(OrderPhotosSchema, None),
       Migration(OrderItemsAndPaymentTransactionsSchema, ItemsAndPaymentsOfOrders),
       Migration(PerItemBirthdayAndPhotoLinkSchema, None),
       Migration(AppConfigAndOrderSourceSchema, SeedOrderSources),
       Migration(ServerLogsAndTriggersSchema, None),
       Migration(None, StaffAndCreatedBy), Migration(None, FixStaffNames),
       Migration(ChecklistSchema, SeedChecklist),
       Migration(OrderHistorySchema, None),
       Migration(ShippingFeeAndExtrasSchema, SeedShippingAndExtras),
       Migration(WorkTicketPrintedAtSchema, None),
       Migration(KnowledgeBaseSchema, None),
       Migration(ProductAttributesSchema \o OrderItemsAttributesSchema, SeedProductAttributes),
       Migration(None, RutTienToggle), Migration(None, TienRutRename),
       Migration(ProductStockSchema, TrungBay),
       Migration(CatalogPhotoTagsSchema, SeedCatalogTags),
       Migration(None, CascadeAndReseed), Migration(None, AddPinSupport),
       Migration(ProductPriceChipsSchema, None) >>
VersionsTo55 ==
    << Migration(ProductAttributeOptionsSchema, EnumAttributes),
       Migration(PrintLogAndPrintedBySchema, PrintTracking),
       Migration(ReconciliationsSchema, None),
       Migration(ReconciliationSaleRowsSchema, None),
       Migration(None, LineWasteReason),
       Migration(StockLotsAndItemsSchema, ChipAwareInventory),
       Migration(None, PriceBucketConsolidation),
       Migration(None, AccessoryProducts),
       Migration(PublicOrderCodeSchema, None),
       Migration(OrderIncidentOrderIdSchema, None),
       Migration(EventPhotosSchema, None),
       Migration(None, BackfillPaymentSource),
       Migration(None, EventHistoryAndSoftDelete),
       Migration(None, DoubleEntryAccounting),
       Migration(None, CostHistoryAndCostAtSale),
       Migration(None, FixOldExpenseJournal),
       Migration(None, FixStaleCogsEntries),
       Migration(None, FixInventoryPurchaseEntries),
       Migration(None, BusShippingBackfill),
       Migration(None, JournalTransactionDate),
       Migration(None, backfill_journal_transaction_date),
       Migration(None, StaffAdvancesAsLiabilities),
       Migration(None, PaymentInvalidation),
       Migration(None, seed_chart_of_accounts), Migration(None, UtcTimestamps) >>
VersionsTo80 ==
    << Migration(CustomersSchema, CustomersAndOrderLink),
       Migration(None, CustomersFromOrders),
       Migration(CustomerPhonesSchema, PhonesOfCustomers),
       Migration(None, DeduplicateCustomers),
       Migration(CustomerYearSummarySchema, YearSummaryOfCustomers),
       Migration(None, CustomerSearchName),
       Migration(None, NegativeBalanceTable), Migration(None, RepairZeroCogs),
       Migration(None, DeliveryPhone), Migration(None, FailureLogTable),
       Migration(None, repair_null_customer_links),
       Migration(OrdersAcknowledgedAt, None), Migration(UsersSchema, UsersTable),
       Migration(AuditLogSchema, None), Migration(SessionsSchema, None),
       Migration(None, UsersRoleCheck), Migration(None, LowercaseUsernames),
       Migration(None, seed_chart_of_accounts),
       Migration(None, repair_null_customer_links),
       Migration(None, PrimaryCustomerPhones), Migration(None, BankSubAccounts),
       Migration(None, StaffIdColumns), Migration(None, StaffNameOfEvents),
       Migration(None, StaffNameOfOrders), Migration(None, DropAmountPaid) >>
VersionsTo104 ==
    << Migration(BlanksSchema, None), Migration(None, BlankOfItem),
       Migration(None, BlanksOfItem), Migration(None, AssignedPrice),
       Migration(None, seed_chart_of_accounts),
       Migration(None, ExpenseCategoriesTable),
       Migration(None, DeliverySchedule), Migration(None, None),
       Migration(None, AssignedStaff), Migration(None, ForcePasswordChange),
       Migration(None, CashDrawerTable), Migration(None, CashSubAccounts),
       Migration(None, RenameQuyToQuay), Migration(None, TienRutColumns),
       Migration(None, JournalBalance), Migration(None, CountedOpeningBalance),
       Migration(None, BreakdownSnapshot), Migration(None, LinkedOrderRefs),
       Migration(None, Reconciled),
       Migration(MessageTemplatesSchema, SeedMessageTemplates),
       Migration(AddressLibrarySchema, None),
       Migration(None, BackfillAddressLibrary), Migration(None, None),
       Migration(PaymentTransactionPhotosSchema, None) >>
Registry == VersionsTo30 \o VersionsTo55 \o VersionsTo80 \o VersionsTo104

=============================================================================

