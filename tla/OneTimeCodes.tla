---------------------------- MODULE OneTimeCodes ----------------------------
(***************************************************************************)
(* One-time codes (accounts/services.py): a code is sent to an identifier  *)
(* for one purpose, and the right code, entered in time, is exchanged for  *)
(* a signed verification token of that purpose.  An identifier stands for  *)
(* the customer it belongs to.                                             *)
(***************************************************************************)
EXTENDS CustomerTable, FiniteSets

CONSTANTS
    Purposes,      \* purposes in use; codes of two purposes never meet
    Senders,       \* requests for a code
    MaxCodes,      \* most codes created per customer and purpose
    MaxAttempts    \* OTP.max_attempts

ASSUME CodesAssumption ==
    /\ Purposes \subseteq {"register", "reset_password"}
    /\ MaxCodes \in Nat /\ MaxAttempts \in Nat \ {0}
    /\ IsFiniteSet(Senders)

Codes == Customers \X Purposes \X (1..MaxCodes)

VARIABLES
    otp,       \* OTP row of a code, with its counter, or absent
    recent,    \* codes created less than RESEND_COOLDOWN_SECONDS ago
    expired,   \* codes past expires_at
    received,  \* codes whose message reached the customer
    misses,    \* history: how often a wrong code was entered for it, to MaxAttempts
    proofs,    \* verification tokens within their lifetime: <<customer, purpose>>
    sender     \* per request: the statement it is at, and the code it is about

codeVars == <<otp, recent, expired, received, misses, proofs, sender>>

CodeRows == [made : BOOLEAN, used : BOOLEAN, attempts : 0..MaxAttempts]
SenderStates ==
    [at : {"rest"}] \cup [at : {"create"}, customer : Customers, purpose : Purposes]
    \cup [at : {"send"}, code : Codes]
Resting == [at |-> "rest"]
NoCode == [made |-> FALSE, used |-> FALSE, attempts |-> 0]

CodesTypeOK ==
    /\ otp \in [Codes -> CodeRows]
    /\ recent \subseteq Codes /\ expired \subseteq Codes /\ received \subseteq Codes
    /\ misses \in [Codes -> 0..MaxAttempts]
    /\ proofs \subseteq Customers \X Purposes
    /\ sender \in [Senders -> SenderStates]

CodesInit ==
    /\ CustomersInit
    /\ otp = [k \in Codes |-> NoCode]
    /\ recent = {} /\ expired = {} /\ received = {} /\ proofs = {}
    /\ misses = [k \in Codes |-> 0]
    /\ sender = [r \in Senders |-> Resting]

Unused(c, p) == {k \in Codes : k[1] = c /\ k[2] = p /\ otp[k].made /\ ~otp[k].used}

\* order_by("-created_at").first()
IsNewest(k, c, p) == k \in Unused(c, p) /\ \A j \in Unused(c, p) : j[3] <= k[3]

\* Within the cooldown of the newest unused code.
CoolingDown(c, p) == \E k \in recent : IsNewest(k, c, p)

(***************************************************************************)
(* RequestOTPView.post and request_otp: a lookup without a lock, the row,  *)
(* and then the message.  Each refusal has an answer of its own in the     *)
(* view and leaves nothing behind.                                         *)
(***************************************************************************)
\* No registration over a password, no reset for nobody.
MayHaveCode(c, p) ==
    /\ p = "register" => ~customer[c].password
    /\ p = "reset_password" => customer[c].exists

Goes(r, next) == sender' = [sender EXCEPT ![r] = next]

\* Mutation of RequestCode: the cooldown is not looked up.
RequestAnyTime(r, c, p) ==
    /\ sender[r] = Resting
    /\ MayHaveCode(c, p)
    /\ Goes(r, [at |-> "create", customer |-> c, purpose |-> p])
    /\ UNCHANGED <<otp, recent, expired, received, misses, proofs>>

RequestCode(r, c, p) ==
    /\ sender[r] = Resting
    /\ MayHaveCode(c, p) /\ ~CoolingDown(c, p)
    /\ Goes(r, [at |-> "create", customer |-> c, purpose |-> p])
    /\ UNCHANGED <<otp, recent, expired, received, misses, proofs>>

NextCode(k) == ~otp[k].made /\ \A n \in 1..k[3] - 1 : otp[<<k[1], k[2], n>>].made

CreateCode(r) ==
    \E k \in Codes :
        /\ sender[r].at = "create"
        /\ k[1] = sender[r].customer /\ k[2] = sender[r].purpose /\ NextCode(k)
        /\ otp' = [otp EXCEPT ![k].made = TRUE]
        /\ recent' = recent \cup {k}
        /\ Goes(r, [at |-> "send", code |-> k])
        /\ UNCHANGED <<expired, received, misses, proofs>>

\* The mail or WhatsApp service takes the message, or raises and the row stays.
SendCode(r) ==
    /\ sender[r].at = "send"
    /\ received' \in {received, received \cup {sender[r].code}}
    /\ Goes(r, Resting)
    /\ UNCHANGED <<otp, recent, expired, misses, proofs>>

SenderDies(r) ==
    /\ sender[r] # Resting
    /\ Goes(r, Resting)
    /\ UNCHANGED <<otp, recent, expired, received, misses, proofs>>

(***************************************************************************)
(* verify_otp locks the newest unused row.                                 *)
(***************************************************************************)
Comparable(k, c, p) == IsNewest(k, c, p) /\ k \notin expired /\ otp[k].attempts < MaxAttempts

\* The counter is raised and saved, and the exception for a wrong code then
\* leaves the transaction: nothing is kept in the table.
CountWrongCode(k) ==
    /\ misses[k] < MaxAttempts /\ misses' = [misses EXCEPT ![k] = @ + 1]
    /\ UNCHANGED otp

WrongCode(c, p) ==
    /\ \E k \in Codes : Comparable(k, c, p) /\ CountWrongCode(k)
    /\ UNCHANGED <<recent, expired, received, proofs, sender>>

UseCode(k) == otp' = [otp EXCEPT ![k].attempts = @ + 1, ![k].used = TRUE]

\* VerifyOTPView.post with the right code.  The token exists once the answer is
\* sent; a process that dies before leaves a used code behind.
VerifyCode(c, p) ==
    /\ \E k \in received : Comparable(k, c, p) /\ UseCode(k)
    /\ proofs' \in {proofs, proofs \cup {<<c, p>>}}
    /\ UNCHANGED <<recent, expired, received, misses, sender>>

(***************************************************************************)
(* Time.  Codes cool down and expire in the order of their creation, and a *)
(* code cools down long before it expires.                                 *)
(***************************************************************************)
Earlier(k) == {<<k[1], k[2], n>> : n \in 1..k[3] - 1}

CooldownEnds(k) ==
    /\ k \in recent /\ Earlier(k) \cap recent = {}
    /\ recent' = recent \ {k}
    /\ UNCHANGED <<otp, expired, received, misses, proofs, sender>>

CodeExpires(k) ==
    /\ otp[k].made /\ k \notin recent \cup expired /\ Earlier(k) \subseteq expired
    /\ expired' = expired \cup {k}
    /\ UNCHANGED <<otp, recent, received, misses, proofs, sender>>

ProofExpires(t) ==
    /\ t \in proofs
    /\ proofs' = proofs \ {t}
    /\ UNCHANGED <<otp, recent, expired, received, misses, sender>>

CodesNext ==
    /\ \/ \E r \in Senders :
              \/ \E c \in Customers, p \in Purposes : RequestCode(r, c, p)
              \/ CreateCode(r) \/ SendCode(r) \/ SenderDies(r)
       \/ \E c \in Customers, p \in Purposes : VerifyCode(c, p) \/ WrongCode(c, p)
       \/ \E k \in Codes : CooldownEnds(k) \/ CodeExpires(k)
       \/ \E t \in proofs : ProofExpires(t)
    /\ UNCHANGED customer

CodesSpec == CodesInit /\ [][CodesNext]_<<customer, codeVars>>

(***************************************************************************)
(* Properties.                                                             *)
(***************************************************************************)
\* "Too many incorrect attempts. Please request a new OTP." (accounts/services.py:157):
\* a code is closed by max_attempts wrong ones, and is not accepted afterwards.
WrongCodesCloseTheCode == \A k \in Codes : misses[k] = MaxAttempts => ~otp[k].used

\* The cooldown is looked up without a lock, so requests that overlap each send
\* a code, but no more than one each: "Please wait ... before requesting
\* another OTP" bounds a burst by the requests in flight.
BurstIsBounded ==
    \A c \in Customers, p \in Purposes :
        Cardinality(recent \cap Unused(c, p)) <= Cardinality(Senders)
=============================================================================
