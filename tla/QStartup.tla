------------------------------ MODULE QStartup ------------------------------
(***************************************************************************)
(* quectel-CM before its main loop: QmiWwanInit gets a client id for each  *)
(* service, then main asks for the version, sets the data format, asks for *)
(* the state of the SIM card, enters the PIN, and looks at the data call.  *)
(* One request at a time; QmiTransaction has the transactions themselves.  *)
(***************************************************************************)
EXTENDS Integers, FiniteSets

CONSTANTS
  DualIp,       \* -6: IsDualIPSupported
  Qmap,         \* a qmap network adapter exists
  Pincode,      \* -p was given
  IdsFail,      \* QMICTL_GET_CLIENT_ID may fail
  Reliable,     \* requests for the SIM card are answered
  MaxBusy       \* bound: answers QMI_ERR_OP_DEVICE_UNSUPPORTED

ConstAssumption ==
  /\ {DualIp, Qmap, Pincode, IdsFail, Reliable} \subseteq BOOLEAN
  /\ MaxBusy \in Nat

SyncTries == 10
Services == {"WDS", "WDS_IPV6", "DMS", "NAS", "UIM", "WDA"}

\* The card is there or not, and the state of PIN1 (QMI_PIN_STATUS_...).
PinStates == {"not_init", "not_verif", "verified", "disabled",
              "blocked", "perm_blocked", "unblocked", "changed"}
Cards == [present : {TRUE}, pin1 : PinStates] \cup [present : {FALSE}, pin1 : {"not_init"}]

SIM_ABSENT == 0
SIM_NOT_READY == 1
SIM_READY == 2
SIM_PIN == 3
SIM_PUK == 4
SIM_BAD == 6
SIM_Status == {0, 1, 2, 3, 4, 5, 6}

VARIABLES
  pc, tries,
  ids,          \* services whose qmiclientId is not 0
  s_9x07,       \* -1, 0 or 1
  pResponse,    \* of requestSetEthMode: NULL, an answer, or one that was freed
  twice,        \* an answer was freed twice
  SIMStatus,
  card,         \* the SIM card
  sent,         \* VERIFY_PIN was sent
  link          \* usbnet_link_change

vars == <<pc, tries, ids, s_9x07, pResponse, twice, SIMStatus, card, sent, link>>
modem == <<ids, s_9x07>>
simvars == <<SIMStatus, card, sent>>

\* SIMStatus is not initialised: any value may be there.
Init ==
  /\ pc = "sync" /\ tries = 0 /\ ids = {} /\ s_9x07 = -1
  /\ pResponse = "NULL" /\ twice = FALSE /\ link = "unknown"
  /\ SIMStatus \in SIM_Status /\ card \in Cards /\ sent = FALSE

---------------------------------------------------------------------------
(* QmiWwanInit *)

Sync ==
  /\ pc = "sync"
  /\ \/ pc' = "WDS" /\ tries' = 0
     \/ tries + 1 < SyncTries /\ tries' = tries + 1 /\ pc' = pc
     \/ tries + 1 = SyncTries /\ tries' = tries /\ pc' = "exit"
  /\ UNCHANGED <<modem, pResponse, twice, simvars, link>>

AfterId(s) ==
  CASE s = "WDS" -> IF DualIp THEN "WDS_IPV6" ELSE "DMS"
    [] s = "WDS_IPV6" -> "DMS"
    [] s = "DMS" -> "NAS"
    [] s = "NAS" -> "UIM"
    [] s = "UIM" -> "WDA"
    [] s = "WDA" -> "version"

\* The return value says nothing of the services that have no id.
QmiWwanGetClientID(s) ==
  /\ pc = s /\ pc' = AfterId(s)
  /\ \/ ids' = ids \cup {s}
     \/ IdsFail /\ UNCHANGED ids
  /\ UNCHANGED <<tries, s_9x07, pResponse, twice, simvars, link>>

\* The revision tells a 9x07 from an EC20; it is asked for before the data format.
requestBaseBandVersion ==
  /\ pc = "version" /\ pc' = IF DualIp THEN "v4" ELSE "auto"
  /\ \/ "DMS" \in ids /\ s_9x07' \in {0, 1}
     \/ UNCHANGED s_9x07
  /\ UNCHANGED <<tries, ids, pResponse, twice, simvars, link>>

---------------------------------------------------------------------------
(* requestSetEthMode *)

\* QmiThreadSendQMI: without a client id there is no request, and the pointer
\* keeps its value.
Send(s) == IF s \in ids THEN {"answer", "NULL"} ELSE {pResponse}

\* A request whose answer is only freed.
SendAndFree(at, s, to) ==
  /\ pc = at /\ pc' = to
  /\ \E r \in Send(s) :
       /\ pResponse' = IF r = "NULL" THEN "NULL" ELSE "freed"
       /\ twice' = (twice \/ r = "freed")

requestSetEthMode ==
  /\ \/ SendAndFree("v4", "WDS", "v6") /\ UNCHANGED s_9x07
     \/ SendAndFree("v6", "WDS_IPV6", "auto") /\ UNCHANGED s_9x07
     \/ SendAndFree("auto", "WDS", IF Qmap THEN "mux" ELSE "format") /\ UNCHANGED s_9x07
     \/ SendAndFree("mux", "WDS", "sim") /\ s_9x07' = 1
     \/ /\ pc = "format" /\ pc' = "sim"
        /\ \/ UNCHANGED s_9x07
           \/ "WDA" \in ids /\ s_9x07' \in {0, 1}
        /\ UNCHANGED <<pResponse, twice>>
  /\ UNCHANGED <<tries, ids, simvars, link>>

---------------------------------------------------------------------------
(* The SIM card *)

UsesUIM == s_9x07 # 0 /\ "UIM" \in ids
HasPath == UsesUIM \/ "DMS" \in ids

\* QMIUIM_GET_CARD_STATUS; the modem puts the TLV into every answer.
UimStatus(c) ==
  IF ~c.present THEN SIM_ABSENT
  ELSE CASE c.pin1 \in {"verified", "disabled", "not_init"} -> SIM_READY
         [] c.pin1 = "not_verif" -> SIM_PIN
         [] c.pin1 = "blocked" -> SIM_PUK
         [] c.pin1 = "perm_blocked" -> SIM_BAD
         [] OTHER -> SIM_ABSENT

\* Mutant: what the last branch left in the status is kept.
PinKeeps(c) == IF c.pin1 = "blocked" THEN {SIM_PUK} ELSE {SIM_PIN}

\* requestGetPINStatus; its own failure leaves SIM_ABSENT.
PinStatus(c) ==
  {CASE c.pin1 = "not_verif" -> SIM_PIN
     [] c.pin1 = "blocked" -> SIM_PUK
     [] c.pin1 = "perm_blocked" -> SIM_BAD
     [] OTHER -> SIM_ABSENT} \cup (IF Reliable THEN {} ELSE {SIM_ABSENT})

\* QMIDMS_UIM_GET_STATE: completed, locked or failed, not present.
DmsStatus(c) ==
  IF ~c.present THEN {SIM_ABSENT}
  ELSE IF c.pin1 \in {"verified", "disabled", "unblocked", "changed"} THEN {SIM_READY}
  ELSE PinStatus(c)

Status ==
  IF UsesUIM THEN {UimStatus(card)} ELSE DmsStatus(card)

\* An answer, an error or none, or the card is not ready yet and one asks again.
requestGetSIMStatus ==
  /\ pc = "sim"
  /\ \/ HasPath /\ SIMStatus' \in Status /\ pc' = "pin" /\ UNCHANGED tries
     \/ ~(HasPath /\ Reliable) /\ pc' = "pin" /\ UNCHANGED <<SIMStatus, tries>>
     \/ HasPath /\ tries < MaxBusy /\ tries' = tries + 1 /\ UNCHANGED <<SIMStatus, pc>>
  /\ UNCHANGED <<modem, pResponse, twice, card, sent, link>>

\* A wrong PIN and a request without answer are not looked at.
requestEnterSimPin ==
  /\ pc = "pin" /\ pc' = "profile"
  /\ IF SIMStatus = SIM_PIN /\ Pincode /\ HasPath
     THEN sent' = TRUE /\ card' \in {card, [card EXCEPT !.pin1 = "verified"]}
     ELSE UNCHANGED <<sent, card>>
  /\ UNCHANGED <<tries, modem, pResponse, twice, SIMStatus, link>>

\* requestSetProfile, requestGetProfile, requestRegistrationState and
\* requestQueryDataCall; then SIGUSR1 starts the main loop.
QueryDataCall ==
  /\ pc = "profile" /\ pc' = "loop"
  /\ \/ link' = "down"
     \/ link' = "up" /\ "WDS" \in ids
  /\ UNCHANGED <<tries, modem, pResponse, twice, simvars>>

Step ==
  \/ Sync \/ \E s \in Services : QmiWwanGetClientID(s)
  \/ requestBaseBandVersion \/ requestSetEthMode
  \/ requestGetSIMStatus \/ requestEnterSimPin \/ QueryDataCall

Ended == pc \in {"loop", "exit"} /\ UNCHANGED vars
Next == Step \/ Ended

\* The modem answers or the 30 seconds of a request pass.
Spec == Init /\ [][Next]_vars /\ WF_vars(Step)

---------------------------------------------------------------------------
(* Properties *)

\* The places of start-up, and the values that a response leaves behind.
TypeOK ==
  /\ pc \in Services \cup {"sync", "version", "v4", "v6", "auto", "mux", "format",
                           "sim", "pin", "profile", "loop", "exit"}
  /\ tries \in 0..(SyncTries - 1) \cup 0..MaxBusy /\ ids \subseteq Services
  /\ s_9x07 \in {-1, 0, 1} /\ pResponse \in {"NULL", "freed"} /\ twice \in BOOLEAN
  /\ SIMStatus \in SIM_Status /\ card \in Cards /\ sent \in BOOLEAN
  /\ link \in {"unknown", "up", "down"}

\* requestSetEthMode frees an answer once, whichever of its requests fail.
NoDoubleFree == ~twice

\* "Verify sim card pin if sim card is locked": a PIN is sent to no other card.
PinOnlyToLocked ==
  [][sent' /\ ~sent => card.present /\ card.pin1 = "not_verif"]_vars

\* A locked card is given the PIN through whichever service has an id.
LockedGetsPin ==
  pc = "loop" /\ Pincode /\ "DMS" \in ids /\ card.present /\ card.pin1 = "not_verif" => sent

\* However many requests fail, main gets to its loop or gives up.
Starts == <>(pc \in {"loop", "exit"})
=============================================================================
