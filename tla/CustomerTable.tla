--------------------------- MODULE CustomerTable ---------------------------
(***************************************************************************)
(* The customer rows (accounts/models.py).  A customer is identified by    *)
(* the e-mail address or phone number that is unique to it.                *)
(***************************************************************************)
EXTENDS Naturals, Sequences

CONSTANT Customers

VARIABLE customer   \* Customer row: whether it exists, has a password, is active

CustomerRows == [exists : BOOLEAN, password : BOOLEAN, active : BOOLEAN]
NoCustomer == [exists |-> FALSE, password |-> FALSE, active |-> TRUE]

\* A direct order may have created the row, without a password; or the customer
\* has registered long ago, and the sessions of then are over.
KnownCustomer(password) == [NoCustomer EXCEPT !.exists = TRUE, !.password = password]
CustomersInit ==
    customer \in [Customers -> {NoCustomer} \cup {KnownCustomer(password) : password \in BOOLEAN}]

\* The admin form saves the flag (and every other column as it was loaded).
SetActive(c, active) ==
    /\ customer[c].exists /\ customer[c].active # active
    /\ customer' = [customer EXCEPT ![c].active = active]
=============================================================================
