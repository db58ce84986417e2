------------------------------ MODULE Services ------------------------------
(***************************************************************************)
(* The services around orders and payments: accounts, one-time codes, the  *)
(* WhatsApp inbox, the CRM, the carts, catalog publishing, the product     *)
(* form, the storefront's filters, the administration of delivery rules,   *)
(* analytics, and the pricing of an order.  Each module has the steps of   *)
(* others that write its tables: codes read the customers of Accounts,     *)
(* Publishing has the product administration, ProductForm the checkouts.   *)
(* So each service is explored by itself, and the others rest.             *)
(***************************************************************************)
EXTENDS Accounts, OneTimeCodes, Inbox, Leads, CartCheckout, Publishing,
        ProductForm, Storefront, DeliveryAdmin, Analytics, Pricing

CONSTANTS
    Parts,          \* the services that are explored
    NothingBought   \* what is priced while others move

VARIABLE part       \* the one that moves

accountsOwn == <<sessionVars, outdated, request>>
aroundVars == <<customer, accountsOwn, codeVars, inboxVars, leadVars, cartCheckoutVars>>
catalogVars == <<publishingVars, formVars, storefrontVars, deliveryAdminVars, analyticsVars, pricingVars>>
allVars == <<aroundVars, catalogVars, part>>

\* The shop window is empty while others move.
NothingOnSale == <<>>

ServicesInit ==
    /\ part \in Parts
    /\ AccountsInit /\ CodesInit /\ InboxInit /\ LeadsInit /\ CartInit /\ PublishingInit
    /\ ProductFormInit /\ DeliveryAdminInit /\ AnalyticsInit
    /\ StorefrontInit(IF part = "storefront" THEN Assortments ELSE {NothingOnSale})
    /\ PricingInit(IF part = "pricing" THEN Situations ELSE {NothingBought})
    /\ part = "accounts" \/ customer = [c \in Customers |-> KnownCustomer(TRUE)]

AccountsMove ==
    /\ part = "accounts" /\ AccountsNext
    /\ UNCHANGED <<codeVars, inboxVars, leadVars, cartCheckoutVars, catalogVars, part>>
CodesMove ==
    /\ part = "codes" /\ CodesNext
    /\ UNCHANGED <<accountsOwn, inboxVars, leadVars, cartCheckoutVars, catalogVars, part>>
InboxMoves ==
    /\ part = "inbox" /\ InboxNext
    /\ UNCHANGED <<customer, accountsOwn, codeVars, leadVars, cartCheckoutVars, catalogVars, part>>
LeadsMove ==
    /\ part = "leads" /\ LeadsNext
    /\ UNCHANGED <<customer, accountsOwn, codeVars, inboxVars, cartCheckoutVars, catalogVars, part>>
CartsMove ==
    /\ part = "carts" /\ CartNext
    /\ UNCHANGED <<customer, accountsOwn, codeVars, inboxVars, leadVars, catalogVars, part>>
PublishingMoves ==
    /\ part = "publishing" /\ PublishingNext
    /\ UNCHANGED <<aroundVars, formVars, storefrontVars, deliveryAdminVars,
                   analyticsVars, pricingVars, part>>
ProductFormMoves ==
    /\ part = "form" /\ ProductFormNext
    /\ UNCHANGED <<aroundVars, publishingVars, storefrontVars, deliveryAdminVars,
                   analyticsVars, pricingVars, part>>
StorefrontMoves ==
    /\ part = "storefront" /\ StorefrontNext
    /\ UNCHANGED <<aroundVars, publishingVars, formVars, deliveryAdminVars,
                   analyticsVars, pricingVars, part>>
DeliveryAdminMoves ==
    /\ part = "delivery" /\ DeliveryAdminNext
    /\ UNCHANGED <<aroundVars, publishingVars, formVars, storefrontVars,
                   analyticsVars, pricingVars, part>>
AnalyticsMove ==
    /\ part = "analytics" /\ AnalyticsNext
    /\ UNCHANGED <<aroundVars, publishingVars, formVars, storefrontVars, deliveryAdminVars,
                   pricingVars, part>>
PricingMoves ==
    /\ part = "pricing" /\ PricingNext
    /\ UNCHANGED <<aroundVars, publishingVars, formVars, storefrontVars, deliveryAdminVars,
                   analyticsVars, part>>

ServicesNext ==
    AccountsMove \/ CodesMove \/ InboxMoves \/ LeadsMove \/ CartsMove \/ PublishingMoves
    \/ ProductFormMoves \/ StorefrontMoves \/ DeliveryAdminMoves \/ AnalyticsMove \/ PricingMoves

ServicesSpec == ServicesInit /\ [][ServicesNext]_allVars
=============================================================================
