-------------------------- MODULE AccountCredentials ---------------------------
(***************************************************************************)
(* The credentials of one account, kept as columns of its row in users:     *)
(*   services/invite_service.py          invitations, by link,              *)
(*   services/user_service.py            removal, restore, resent links,    *)
(*   services/password_reset_service.py  reset links,                       *)
(*   services/mfa_service.py, auth_service.py, api/v1/mfa.py   the second   *)
(*       factor and its recovery codes.                                     *)
(*                                                                         *)
(* A request loads the row, decides on what it loaded, and commits the      *)
(* columns it assigned a different value to; requests overlap.              *)
(***************************************************************************)
EXTENDS Naturals, FiniteSets

CONSTANTS
    Askers,      \* requests in flight
    Codes,       \* positions of the recovery codes of a batch
    MaxMinted    \* bound on the tokens, passwords and batches ever made

ASSUME CredentialsAssumption == MaxMinted \in Nat /\ Codes # {}

VARIABLES
    row,         \* the account's row
    minted,      \* tokens, passwords, secrets and batches made so far
    lapsed,      \* links whose invite_expires_at or password_reset_expires_at is past
    ask,         \* ask[a]: a request in flight
    used         \* history: links whose use was committed

cVars == <<row, minted, lapsed, ask, used>>

Minted == 0..MaxMinted     \* 0: NULL
Batch == [id : Minted, spent : SUBSET Codes]
NoBatch == [id |-> 0, spent |-> {}]

Row == [exists : BOOLEAN, deleted : BOOLEAN, pw : Minted, reset : Minted, invite : Minted,
        mfa : {"off", "on"}, secret : Minted, codes : Batch]

NoRowYet == [exists |-> FALSE, deleted |-> FALSE, pw |-> 0, reset |-> 0, invite |-> 0,
             mfa |-> "off", secret |-> 0, codes |-> NoBatch]
Registered == [NoRowYet EXCEPT !.exists = TRUE]

Kinds == {"invite", "resend", "accept", "loginInvite", "remove", "restore",
          "forgot", "reset", "finalize", "recover", "rotate"}
Minting == {"invite", "resend", "accept", "forgot", "reset", "finalize", "rotate"}
Ask == [kind : Kinds \cup {"none"}, copy : Row, code : SUBSET Codes]
NoAsk == [kind |-> "none", copy |-> NoRowYet, code |-> {}]

CredentialsInit ==
    /\ row \in {NoRowYet, Registered}
    /\ minted = 0
    /\ lapsed = {}
    /\ ask = [a \in Askers |-> NoAsk]
    /\ used = {}

Live(r) == r.exists /\ ~r.deleted

(* What each request requires of the row it loads. A link is presented by    *)
(* its token, so the row loaded is the one that holds it.                    *)
Accepts(kind, r) ==
    \/ kind = "invite" /\ ~Live(r)                                 \* create_invite
    \/ kind = "resend" /\ Live(r) /\ r.invite \in lapsed \cup {0}      \* invite_user
    \/ kind \in {"accept", "loginInvite"} /\ Live(r) /\ r.invite \notin lapsed \cup {0}
    \/ kind = "remove" /\ Live(r)                                  \* delete_user
    \/ kind = "restore" /\ r.exists /\ r.deleted                   \* restore_user
    \/ kind = "forgot" /\ Live(r)                                  \* request_reset
    \/ kind = "reset" /\ Live(r) /\ r.reset \notin lapsed \cup {0}  \* reset_password
    \/ kind = "finalize" /\ Live(r) /\ r.mfa = "off"               \* persist_enrollment
    \/ kind = "rotate" /\ Live(r) /\ r.mfa = "on"                  \* rotate_recovery_codes

(* mutant: the token stays in its column *)
ResetKeepsToken(r, n) == [r EXCEPT !.pw = n]

(* reset_password *)
ResetDone(r, n) == [r EXCEPT !.pw = n, !.reset = 0]

(* mutant: the secret is left to a later request *)
EnrolledOnly(r, n) == [r EXCEPT !.mfa = "on", !.codes = [id |-> n, spent |-> {}]]

(* persist_enrollment *)
Enrolled(r, n) ==
    [r EXCEPT !.mfa = "on", !.secret = n, !.codes = [id |-> n, spent |-> {}]]

(* The row a request leaves in its session; n is what it makes anew. The     *)
(* revival of a removed row keeps its second factor and its reset link.      *)
Assigned(kind, r, n) ==
    CASE kind = "invite" -> [r EXCEPT !.exists = TRUE, !.deleted = FALSE, !.pw = n, !.invite = n]
      [] kind = "resend" -> [r EXCEPT !.invite = n]
      [] kind = "accept" -> [r EXCEPT !.pw = n, !.invite = 0]
      [] kind = "loginInvite" -> [r EXCEPT !.invite = 0]
      [] kind = "remove" -> [r EXCEPT !.deleted = TRUE]
      [] kind = "restore" -> [r EXCEPT !.deleted = FALSE]
      [] kind = "forgot" -> [r EXCEPT !.reset = n]
      [] kind = "reset" -> ResetDone(r, n)
      [] kind = "finalize" -> Enrolled(r, n)
      [] kind = "rotate" -> [r EXCEPT !.codes = [id |-> n, spent |-> {}]]

(* mutant: the whole row is written *)
WholeRow(copy, new) == new

(* What a commit writes: the columns whose value the request changed, and    *)
(* the others as they are by then.                                           *)
Committed(copy, new) ==
    LET Col(c) == IF new[c] # copy[c] THEN new[c] ELSE row[c]
    IN  [exists |-> Col("exists"), deleted |-> Col("deleted"), pw |-> Col("pw"),
         reset |-> Col("reset"), invite |-> Col("invite"),
         mfa |-> Col("mfa"), secret |-> Col("secret"), codes |-> Col("codes")]

(* The link a request consumes *)
LinkOf(kind, r) ==
    IF kind = "reset" THEN {<<"reset", r.reset>>}
    ELSE IF kind \in {"accept", "loginInvite"} THEN {<<"invite", r.invite>>} ELSE {}

-------------------------------------------------------------------------------
Loads(a, kind) ==
    /\ ask[a] = NoAsk
    /\ Accepts(kind, row)
    /\ ask' = [ask EXCEPT ![a] = [kind |-> kind, copy |-> row, code |-> {}]]
    /\ UNCHANGED <<row, minted, lapsed, used>>

(* complete_mfa_login with a recovery code: a slot not used in the batch the *)
(* request loads                                                             *)
LoadsCode(a, k) ==
    /\ ask[a] = NoAsk
    /\ Live(row) /\ row.mfa = "on" /\ k \notin row.codes.spent
    /\ ask' = [ask EXCEPT ![a] = [kind |-> "recover", copy |-> row, code |-> {k}]]
    /\ UNCHANGED <<row, minted, lapsed, used>>

Commits(a) ==
    LET q == ask[a]
        new == Assigned(q.kind, q.copy, minted + 1)
    IN  /\ q.kind \notin {"none", "recover"}
        /\ q.kind \in Minting => minted < MaxMinted
        /\ q.kind = "invite" /\ ~q.copy.exists => ~row.exists      \* users.email is unique
        /\ row' = Committed(q.copy, new)
        /\ minted' = IF q.kind \in Minting THEN minted + 1 ELSE minted
        /\ used' = used \cup LinkOf(q.kind, q.copy)
        /\ ask' = [ask EXCEPT ![a] = NoAsk]
        /\ UNCHANGED lapsed

(* consume_recovery_code: the whole batch goes back into its column *)
CommitsCode(a) ==
    LET q == ask[a]
        new == [q.copy EXCEPT !.codes.spent = @ \cup q.code]
    IN  /\ q.kind = "recover"
        /\ row' = Committed(q.copy, new)
        /\ ask' = [ask EXCEPT ![a] = NoAsk]
        /\ UNCHANGED <<minted, lapsed, used>>

Aborts(a) ==
    /\ ask[a] # NoAsk
    /\ ask' = [ask EXCEPT ![a] = NoAsk]
    /\ UNCHANGED <<row, minted, lapsed, used>>

LinkExpires ==
    /\ \E l \in {row.invite, row.reset} \ (lapsed \cup {0}) : lapsed' = lapsed \cup {l}
    /\ UNCHANGED <<row, minted, ask, used>>

CredentialsNext ==
    \/ LinkExpires
    \/ \E a \in Askers :
          \/ \E kind \in Kinds : Loads(a, kind)
          \/ \E k \in Codes : LoadsCode(a, k)
          \/ Commits(a) \/ CommitsCode(a) \/ Aborts(a)

CredentialsSpec == CredentialsInit /\ [][CredentialsNext]_cVars

-------------------------------------------------------------------------------
CredentialsTypeOK ==
    /\ row \in Row /\ (row.mfa = "on" => row.secret # 0 /\ row.codes.id # 0)
    /\ minted \in Minted
    /\ ask \in [Askers -> Ask]
    /\ used \subseteq {"reset", "invite"} \X Minted /\ lapsed \subseteq Minted

(* A reset or invitation link that has been used opens nothing any more, not *)
(* even through a request that had loaded the row before                     *)
(* (password_reset_service.py:118, "cleared so it cannot be replayed").      *)
UsedLinksGone == \A l \in used : row[l[1]] # l[2]

(* MFA, once enrolled, is not lost to a request that loaded the account      *)
(* before, and nothing turns it off (api/v1/mfa.py:63).                      *)
MfaStaysOn == [][row.mfa = "on" => row'.mfa = "on"]_cVars

(* What an account was given or rid of stays so whatever copies requests in  *)
(* flight hold: used links stay gone, MFA stays on                           *)
(* (password_reset_service.py:118, api/v1/mfa.py:63).                        *)
CredentialsKept == []UsedLinksGone /\ MfaStaysOn

(* password_reset_service.py:118 says of a reset token that it is cleared    *)
(* "so it cannot be replayed": no committed use is of a used link.           *)
SingleUse ==
    [][\A a \in Askers :
          row' # row /\ ask[a] # ask'[a] =>
              LinkOf(ask[a].kind, ask[a].copy) \cap used = {}]_cVars

(* mfa_service.py:243 says of a recovery code that it is "single-use": a     *)
(* spent code of the batch stays spent.                                      *)
SpentStaysSpent ==
    [][row'.codes.id = row.codes.id => row.codes.spent \subseteq row'.codes.spent]_cVars

(* mfa_service.py:290 says of a rotation that it mints "a fresh batch of     *)
(* recovery codes, invalidating the old".                                    *)
OldCodesVoid == [][row'.codes.id >= row.codes.id]_cVars

===============================================================================
