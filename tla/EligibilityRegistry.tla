------------------------ MODULE EligibilityRegistry ------------------------
(***************************************************************************)
(* EligibilityRegistry.sol: who may claim (signed, scoped, expiring        *)
(* attestations; revocation; an optional live balance check) and who gets  *)
(* rewards delivered without claiming (auto-delivery, set directly or by a *)
(* signed message with a nonce).                                           *)
(*                                                                         *)
(* A signature is the message it signs: signedOptIns is the set of         *)
(* auto-delivery messages wallets have signed off chain, and an            *)
(* attestation is a record naming the key that signed it.  The history     *)
(* variables consumed and withdrawn are read by properties only.           *)
(***************************************************************************)
EXTENDS Integers

CONSTANTS
  HolderWallets,   \* all wallets
  SwitchWallets,   \* bound: the wallets whose registry state is exercised
  LiveModes,       \* bound: values given to requireLiveBalance
  Signers,         \* keys that may become the attestation signer
  NoSigner,        \* the zero address
  Scopes,          \* one scope per reward epoch
  Expiries,        \* expiry timestamps of the attestations that are presented
  MaxNow,          \* bound: last timestamp
  MaxNonce         \* bound: auto-delivery signatures consumed per wallet

ASSUME RegistryAssumption ==
  /\ SwitchWallets \subseteq HolderWallets
  /\ LiveModes \subseteq BOOLEAN
  /\ NoSigner \notin Signers
  /\ Expiries \subseteq Nat
  /\ MaxNow \in Nat /\ MaxNonce \in Nat

VARIABLES
  now,                              \* block.timestamp
  attestationSigner, requireLiveBalance, revoked,
  autoDelivery, autoDeliveryNonce,
  aboveThreshold,                   \* PENNY.balanceOf(w) >= ELIGIBILITY_THRESHOLD
  signedOptIns, consumed, withdrawn

registryVars == <<now, attestationSigner, requireLiveBalance, revoked, autoDelivery,
                  autoDeliveryNonce, aboveThreshold, signedOptIns, consumed, withdrawn>>

gateVars == <<attestationSigner, requireLiveBalance, revoked, aboveThreshold>>
optInVars == <<autoDelivery, autoDeliveryNonce, signedOptIns, consumed, withdrawn>>

OptIn == [wallet : HolderWallets, enabled : BOOLEAN, nonce : Nat]
Attestation == [scope : Scopes, expiry : Expiries, signer : Signers]

RegistryInit ==
  /\ now = 0
  /\ attestationSigner = NoSigner /\ requireLiveBalance = FALSE
  /\ revoked = [w \in HolderWallets |-> FALSE]
  /\ autoDelivery = [w \in HolderWallets |-> FALSE]
  /\ autoDeliveryNonce = [w \in HolderWallets |-> 0]
  /\ aboveThreshold = [w \in HolderWallets |-> TRUE]
  /\ signedOptIns = {} /\ consumed = {} /\ withdrawn = {}

SetAttestationSigner(s) ==
  /\ attestationSigner' = s
  /\ UNCHANGED <<now, requireLiveBalance, revoked, aboveThreshold, optInVars>>

SetRequireLiveBalance(enabled) ==
  /\ requireLiveBalance' = enabled
  /\ UNCHANGED <<now, attestationSigner, revoked, aboveThreshold, optInVars>>

SetRevoked(w, value) ==
  /\ revoked' = [revoked EXCEPT ![w] = value]
  /\ UNCHANGED <<now, attestationSigner, requireLiveBalance, aboveThreshold, optInVars>>

\* Mutant: a direct call starts the nonces over.
SetAutoDeliveryFromNonceZero(w, enabled) ==
  /\ autoDelivery' = [autoDelivery EXCEPT ![w] = enabled]
  /\ autoDeliveryNonce' = [autoDeliveryNonce EXCEPT ![w] = 0]
  /\ UNCHANGED <<now, gateVars, signedOptIns, consumed, withdrawn>>

\* The wallet's own call; its nonce stays as it is.
SetAutoDelivery(w, enabled) ==
  /\ autoDelivery' = [autoDelivery EXCEPT ![w] = enabled]
  /\ withdrawn' = withdrawn \cup
       {m \in signedOptIns : m.wallet = w /\ m.enabled # enabled}
  /\ UNCHANGED <<now, gateVars, autoDeliveryNonce, signedOptIns, consumed>>

\* Off chain: the wallet signs a message for its current nonce.
SignOptIn(w, enabled) ==
  LET m == [wallet |-> w, enabled |-> enabled, nonce |-> autoDeliveryNonce[w]]
  IN  /\ autoDeliveryNonce[w] < MaxNonce \* bound
      /\ signedOptIns' = signedOptIns \cup {m}
      /\ withdrawn' = withdrawn \ {m}
      /\ UNCHANGED <<now, gateVars, autoDelivery, autoDeliveryNonce, consumed>>

\* Mutant: the nonce is checked and not advanced.
SetAutoDeliveryBySigAgain(m) ==
  /\ m \in signedOptIns
  /\ m.nonce = autoDeliveryNonce[m.wallet]
  /\ autoDelivery' = [autoDelivery EXCEPT ![m.wallet] = m.enabled]
  /\ consumed' = consumed \cup {m}
  /\ UNCHANGED <<now, gateVars, autoDeliveryNonce, signedOptIns, withdrawn>>

\* Anyone may submit a signed message, any number of times.
SetAutoDeliveryBySig(m) ==
  /\ m \in signedOptIns
  /\ m.nonce = autoDeliveryNonce[m.wallet]
  /\ autoDeliveryNonce' = [autoDeliveryNonce EXCEPT ![m.wallet] = m.nonce + 1]
  /\ autoDelivery' = [autoDelivery EXCEPT ![m.wallet] = m.enabled]
  /\ consumed' = consumed \cup {m}
  /\ UNCHANGED <<now, gateVars, signedOptIns, withdrawn>>

\* The wallet trades PENNY across the threshold.
CrossThreshold(w) ==
  /\ aboveThreshold' = [aboveThreshold EXCEPT ![w] = ~@]
  /\ UNCHANGED <<now, attestationSigner, requireLiveBalance, revoked, optInVars>>

Tick ==
  /\ now < MaxNow \* bound
  /\ now' = now + 1
  /\ UNCHANGED <<gateVars, optInVars>>

\* isEligible: the attestation a, presented by w for `scope`, opens the gate.
IsEligible(w, scope, a) ==
  /\ attestationSigner # NoSigner
  /\ ~revoked[w]
  /\ now <= a.expiry
  /\ a.signer = attestationSigner /\ a.scope = scope
  /\ requireLiveBalance => aboveThreshold[w]

RegistryChange ==
  \/ \E s \in Signers : SetAttestationSigner(s)
  \/ \E b \in LiveModes : SetRequireLiveBalance(b)
  \/ \E w \in SwitchWallets, b \in BOOLEAN :
       SetRevoked(w, b) \/ SetAutoDelivery(w, b) \/ SignOptIn(w, b)
  \/ \E m \in signedOptIns : SetAutoDeliveryBySig(m)
  \/ \E w \in SwitchWallets : TRUE \in LiveModes /\ CrossThreshold(w)
  \/ Tick

RegistrySpec == RegistryInit /\ [][RegistryChange]_registryVars

-----------------------------------------------------------------------------
\* Types of the registry's state (EligibilityRegistry.sol state variables).
RegistryTypeOK ==
  /\ now \in Nat
  /\ attestationSigner \in Signers \cup {NoSigner}
  /\ requireLiveBalance \in BOOLEAN
  /\ revoked \in [HolderWallets -> BOOLEAN]
  /\ autoDelivery \in [HolderWallets -> BOOLEAN]
  /\ autoDeliveryNonce \in [HolderWallets -> Nat]
  /\ aboveThreshold \in [HolderWallets -> BOOLEAN]
  /\ signedOptIns \subseteq OptIn /\ consumed \subseteq OptIn /\ withdrawn \subseteq OptIn

\* A consumed signature can never be submitted again, whatever the wallet
\* signs, disables or enables afterwards: its nonce is behind for good.
ConsumedIsSpent ==
  \A m \in consumed : m.nonce < autoDeliveryNonce[m.wallet]

\* Two different messages with the same nonce never both take effect: an
\* enable and a disable signed for one nonce exclude each other.
OneMessagePerNonce ==
  \A m, n \in consumed : m.wallet = n.wallet /\ m.nonce = n.nonce => m = n

\* What setAutoDeliveryBySig's comment promises: a signature the wallet
\* overrode with a direct call no longer takes effect.
WithdrawnNeverConsumed ==
  [][\A m \in withdrawn : m \in consumed' => m \in consumed]_registryVars
=============================================================================
