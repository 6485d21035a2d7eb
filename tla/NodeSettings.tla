----------------------------- MODULE NodeSettings -----------------------------
(***************************************************************************)
(* The settings of a node and what is decided by them: the configuration      *)
(* that the server loads when it starts and the one that a reload makes         *)
(* (src/teaming24/config, src/teaming24/api/routes/health.py), the endpoints     *)
(* that change it, the wallet's address, and the payment gate that admits        *)
(* tasks (src/teaming24/payment/crypto/x402).                                   *)
(*                                                                         *)
(* server.py and the routes bind the object that was loaded at the start; a       *)
(* reload makes another one, which get_config() returns from then on, to the       *)
(* gate, the crews and the tools.  Of the settings, "enabled" stands for what the   *)
(* payment endpoint changes.                                                    *)
(***************************************************************************)
EXTENDS Naturals

CONSTANTS Parents,     \* tasks of the one requester
          Addresses,   \* wallet addresses that users give
          Exported     \* address exported to the process, or NoAddress

NoAddress == "none"
Derived == "derived"   \* the address made of host name and MAC when there is none
Modes == {"mock", "testnet"}

NodeSettingsAssumption ==
  /\ Exported \in Addresses \cup {NoAddress}
  /\ Addresses \cap {NoAddress, Derived} = {}

VARIABLES
  file,      \* teaming24.yaml: can it be parsed, and what it says
  dotenv,    \* the address in .env
  environ,   \* the address in the environment of the process
  start,     \* the configuration loaded at the start
  reloaded,  \* the one loaded by the last reload, or NoConfig
  wallet,    \* _wallet_config: the address that the wallet endpoints show
  x402,      \* X402Config: mode and network
  gate,      \* the gate: the mode its facilitator is for, or "none"
  paid,      \* payment_records of the requester
  charges    \* history: how often each task was charged

config == <<file, dotenv, environ, start, reloaded>>
payment == <<wallet, x402, gate>>
records == <<paid, charges>>
settingsVars == <<config, payment, records>>

NoConfig == [wallet |-> NoAddress, enabled |-> FALSE]

\* A file that is missing or cannot be parsed leaves the defaults of the dataclasses.
Enabled(f) == f.valid /\ f.enabled

\* resolve_node_identity: a node has an address in any case.
Identity(address) == IF address = NoAddress THEN Derived ELSE address

\* load_config: the file, then the overrides of the environment.
Loaded(f, address) == [wallet |-> Identity(address), enabled |-> Enabled(f)]

\* _load_wallet_from_env: a wallet in the environment enables payment.
WithWallet(c, address) ==
  IF address = NoAddress THEN c ELSE [c EXCEPT !.wallet = address, !.enabled = TRUE]

\* What get_config() returns.
Current == IF reloaded = NoConfig THEN start ELSE reloaded

\* load_dotenv does not override what is exported.
Environment(env) == IF Exported # NoAddress THEN Exported ELSE env

NetworkOf(mode) == IF mode = "mock" THEN "mock" ELSE "base-sepolia"

\* configure: the presets are applied to what has no value, so the network stays.
Configured(x, mode) ==
  [mode |-> mode, network |-> IF x.network = "" THEN NetworkOf(mode) ELSE x.network]

\* There is no x402.yaml, so the mode is the default whatever the configuration says.
DefaultX402 == [mode |-> "mock", network |-> NetworkOf("mock")]

SettingsInit ==
  /\ file \in [valid : {TRUE}, enabled : BOOLEAN]
  /\ dotenv = NoAddress /\ environ = Environment(dotenv)
  /\ start = WithWallet(Loaded(file, environ), environ) /\ reloaded = NoConfig
  /\ wallet = environ
  /\ x402 = DefaultX402 /\ gate = "none"
  /\ paid = {} /\ charges = [p \in Parents |-> 0]

-----------------------------------------------------------------------------

\* The operator edits the file, perhaps so that it cannot be parsed.
EditFile(valid, enabled) ==
  /\ file' = [valid |-> valid, enabled |-> enabled]
  /\ UNCHANGED <<dotenv, environ, start, reloaded, payment, records>>

\* The framework or a channel is set in the file.  A file that cannot be parsed is
\* written anew with this setting only.
SaveSetting ==
  /\ file' = [valid |-> TRUE, enabled |-> Enabled(file)]
  /\ UNCHANGED <<dotenv, environ, start, reloaded, payment, records>>

\* The server ends and starts: payment records and .env stay.
Restart ==
  /\ environ' = Environment(dotenv)
  /\ start' = WithWallet(Loaded(file, environ'), environ') /\ reloaded' = NoConfig
  /\ wallet' = environ'
  /\ x402' = DefaultX402 /\ gate' = "none"
  /\ UNCHANGED <<file, dotenv, paid, charges>>

Reload ==
  /\ reloaded' = Loaded(file, environ)
  /\ UNCHANGED <<file, dotenv, environ, start, payment, records>>

\* POST /api/wallet/config: the gate is dropped, .env is written, the environment is not.
SetWallet(a) ==
  /\ wallet' = a /\ dotenv' = a
  /\ start' = WithWallet(start, a)
  /\ gate' = "none"
  /\ UNCHANGED <<file, environ, reloaded, x402, records>>

\* Mutated form: the gate is not dropped.
SetPaymentKeepingGate(enabled, mode) ==
  /\ start' = [start EXCEPT !.enabled = enabled]
  /\ x402' = Configured(x402, mode)
  /\ UNCHANGED <<file, dotenv, environ, reloaded, wallet, gate, records>>

\* POST /api/payment/config: the gate is dropped and, for the reply, made again.
SetPayment(enabled, mode) ==
  /\ start' = [start EXCEPT !.enabled = enabled]
  /\ x402' = Configured(x402, mode)
  /\ gate' = mode
  /\ UNCHANGED <<file, dotenv, environ, reloaded, wallet, records>>

-----------------------------------------------------------------------------

\* get_payment_gate.
Gate == IF gate = "none" THEN x402.mode ELSE gate

\* process_task_payment.  A payload cannot be parsed (PaymentPayload is a dataclass
\* without model_validate), so outside mock mode every payment is refused.
Decision(pay) ==
  IF ~Current.enabled THEN "free"
  ELSE IF x402.mode = "mock" THEN IF pay = "amount" THEN "charged" ELSE "free"
  ELSE "refused"

Charged(p, result) == IF result = "charged" THEN [charges EXCEPT ![p] = @ + 1] ELSE charges

\* Mutated form: what a parent paid is not recorded.
AdmitUnrecorded(p, pay) ==
  /\ gate' = Gate
  /\ charges' = IF p \in paid THEN charges ELSE Charged(p, Decision(pay))
  /\ UNCHANGED <<config, wallet, x402, paid>>

\* A submission of another node; a parent task that was admitted once is not asked to
\* pay again.
Admit(p, pay) ==
  /\ gate' = Gate
  /\ IF p \in paid
     THEN UNCHANGED records
     ELSE /\ charges' = Charged(p, Decision(pay))
          /\ paid' = IF Decision(pay) = "refused" THEN paid ELSE paid \cup {p}
  /\ UNCHANGED <<config, wallet, x402>>

\* A message of a channel passes the gate too, without a payment: outside mock mode it
\* is refused when payment is enabled.
AdmitLocal ==
  /\ gate' = Gate
  /\ UNCHANGED <<config, wallet, x402, records>>

SettingsNext ==
  \/ \E v \in BOOLEAN, e \in BOOLEAN : EditFile(v, e)
  \/ SaveSetting
  \/ Restart
  \/ Reload
  \/ \E a \in Addresses : SetWallet(a)
  \/ \E e \in BOOLEAN, m \in Modes : SetPayment(e, m)
  \/ \E p \in Parents, pay \in {"amount", "nothing"} : Admit(p, pay)
  \/ AdmitLocal

SettingsSpec == SettingsInit /\ [][SettingsNext]_settingsVars

-----------------------------------------------------------------------------

Configs == [wallet : Addresses \cup {NoAddress, Derived}, enabled : BOOLEAN]

\* The variables have their types, and a node always has an address to be paid at.
SettingsTypeOK ==
  /\ file \in [valid : BOOLEAN, enabled : BOOLEAN]
  /\ {dotenv, environ, wallet} \subseteq Addresses \cup {NoAddress}
  /\ {start, reloaded} \subseteq Configs
  /\ Current.wallet # NoAddress
  /\ x402 \in [mode : Modes, network : {"mock", "base-sepolia"}]
  /\ gate \in Modes \cup {"none"}
  /\ paid \subseteq Parents /\ charges \in [Parents -> Nat]

\* However settings, reloads and restarts interleave with submissions: a parent task is
\* charged at most once, and not for a record it got free; the gate settles with the
\* facilitator of the mode in force; and unless there was a reload since the start, tasks
\* are paid to the wallet that is shown, which a restart restores.
PaymentsFollowSettings ==
  /\ \A p \in Parents : charges[p] <= 1 /\ (charges[p] = 1 => p \in paid)
  /\ gate \in {"none", x402.mode}
  /\ reloaded = NoConfig /\ wallet # NoAddress => Current.wallet = wallet
  /\ Exported = NoAddress /\ wallet # NoAddress => dotenv = wallet
=============================================================================
