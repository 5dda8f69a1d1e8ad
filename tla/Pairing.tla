------------------------------ MODULE Pairing ------------------------------
(***************************************************************************)
(* Pairing codes and tokens (auth/, server/auth-persistence.ts).  Every    *)
(* engine graph has an AuthController of its own, with its codes and its   *)
(* copy of the tokens; the secret and the tokens' digests outlive it in    *)
(* safeStorage.  A token is the n-th one issued, a code the n-th one       *)
(* shown; codes are shown in the order of their times and all live equally *)
(* long, so the clock is how many of them it has passed.                   *)
(***************************************************************************)
EXTENDS Naturals, Sequences, FiniteSetsExt

CONSTANTS
  MaxGraphs,     \* bound: engine graphs built
  MaxTokens,     \* bound: pairings
  MaxCodes,      \* bound: codes shown
  MaxActive      \* PairingService.maxActiveCodes

ASSUME PairingConstants ==
  /\ {MaxGraphs, MaxTokens, MaxCodes} \subseteq Nat
  /\ MaxActive \in Nat \ {0}

Graphs == 1 .. MaxGraphs
Tokens == 1 .. MaxTokens
Codes  == 1 .. MaxCodes

VARIABLES
  auth,       \* the AuthController of each graph
  stored,     \* safeStorage: the secret (0: none) and the tokens
  secrets,    \* secrets made so far
  issued,     \* the secret each token was issued under
  shown,      \* codes shown so far
  clock,      \* codes 1 .. clock are past their expiry
  removed     \* tokens the user has revoked, alone or with the whole profile

pairingVars == << auth, stored, secrets, issued, shown, clock, removed >>

NoStore == [secret |-> 0, known |-> {}, revoked |-> {}]
NoAuth  == [secret |-> 0, known |-> {}, revoked |-> {}, pending |-> {}]

PairingTypeOK ==
  /\ DOMAIN auth = Graphs
  /\ \A s \in Range(auth) \cup {stored} :
       /\ s.secret \in 0 .. secrets
       /\ s.revoked \subseteq s.known /\ s.known \subseteq DOMAIN issued
  /\ \A g \in Graphs : Cardinality(auth[g].pending) <= MaxActive
  /\ issued \in Seq(1 .. secrets) /\ Len(issued) <= MaxTokens
  /\ shown \in 0 .. MaxCodes /\ clock \in 0 .. shown
  /\ removed \subseteq DOMAIN issued

PairingInit ==
  /\ auth = [g \in Graphs |-> NoAuth]
  /\ stored = NoStore
  /\ secrets = 0
  /\ issued = << >>
  /\ shown = 0 /\ clock = 0
  /\ removed = {}

-----------------------------------------------------------------------------

\* TokenStore.verify()
Accepts(store, t) == t \in store.known \ store.revoked /\ store.secret = issued[t]

\* persist() writes the whole store.
Persist(g) ==
  stored' = [stored EXCEPT !.known = auth'[g].known, !.revoked = auth'[g].revoked]

\* buildEngineGraph(): the stored secret, or a new one that is stored, and the
\* stored tokens; no code is pending.
BuildAuth(g) ==
  LET secret == IF stored.secret # 0 THEN stored.secret ELSE secrets + 1
  IN  /\ auth' = [auth EXCEPT ![g] = [secret |-> secret, known |-> stored.known,
                                      revoked |-> stored.revoked, pending |-> {}]]
      /\ secrets' = IF stored.secret # 0 THEN secrets ELSE secret
      /\ stored' = [stored EXCEPT !.secret = secret]
      /\ UNCHANGED << issued, shown, clock, removed >>

\* beginPairing() of an AuthController: prune(), then the oldest codes make room.
Kept(pending) ==
  LET live == {c \in pending : c > clock}
  IN  IF Cardinality(live) < MaxActive THEN live ELSE live \ {Min(live)}

BeginPairing(g) ==
  /\ shown < MaxCodes
  /\ shown' = shown + 1
  /\ auth' = [auth EXCEPT ![g].pending = Kept(@) \cup {shown'}]
  /\ UNCHANGED << stored, secrets, issued, clock, removed >>

\* attempt(): a wrong or expired code, or one over the limits, gets an error; an
\* expired one is forgotten (it would be at the next prune()).
PairAttempt(g, c) ==
  /\ c \in auth[g].pending
  /\ \/ /\ c <= clock
        /\ auth' = [auth EXCEPT ![g].pending = @ \ {c}]
        /\ UNCHANGED << stored, issued >>
     \/ /\ c > clock
        /\ Len(issued) < MaxTokens
        /\ issued' = Append(issued, auth[g].secret)
        /\ auth' = [auth EXCEPT ![g].pending = @ \ {c}, ![g].known = @ \cup {Len(issued')}]
        /\ Persist(g)
  /\ UNCHANGED << secrets, shown, clock, removed >>

\* Mutant: the revocation is not persisted.
RevokeInMemory(g, t) ==
  /\ t \in auth[g].known \ auth[g].revoked
  /\ auth' = [auth EXCEPT ![g].revoked = @ \cup {t}]
  /\ removed' = removed \cup {t}
  /\ UNCHANGED << stored, secrets, issued, shown, clock >>

\* revokeClient() of a client that has not been revoked yet.
Revoke(g, t) ==
  /\ t \in auth[g].known \ auth[g].revoked
  /\ auth' = [auth EXCEPT ![g].revoked = @ \cup {t}]
  /\ Persist(g)
  /\ removed' = removed \cup {t}
  /\ UNCHANGED << secrets, issued, shown, clock >>

\* resetProfile(): every token is revoked, then the secret and the tokens deleted.
RevokeAllAndForget(g) ==
  /\ auth' = [auth EXCEPT ![g].revoked = auth[g].known]
  /\ stored' = NoStore
  /\ removed' = removed \cup DOMAIN issued
  /\ UNCHANGED << secrets, issued, shown, clock >>

\* The program ends.
Forget ==
  /\ auth' = [g \in Graphs |-> NoAuth]
  /\ UNCHANGED << stored, secrets, issued, shown, clock, removed >>

\* Ten minutes have passed for the next code; time is looked at for pending codes only.
CodeExpires ==
  /\ \E g \in Graphs : \E c \in auth[g].pending : c > clock
  /\ clock < shown
  /\ clock' = clock + 1
  /\ UNCHANGED << auth, stored, secrets, issued, shown, removed >>
=============================================================================
