--------------------------- MODULE WsmanCatalogue ---------------------------
(***************************************************************************)
(* The operations of wsman/src/operations.cpp, as data.  Each one is a set *)
(* of branches that run side by side; a branch is a sequence of requests,  *)
(* each sent when the one before was accepted; `ok` says when the callback *)
(* reports success.  WsmanOperations runs them.                            *)
(*                                                                         *)
(* The envelopes and the values read from a reply are left out.  What is   *)
(* kept of a reply is what the extractors of operations.cpp tell apart.    *)
(***************************************************************************)
EXTENDS Sequences

\* The branches of the wide reads that an instance keeps (see Fan).
CONSTANT Kept

(***************************************************************************)
(* Replies.  "lost" is a reply with hasError(), "fault" a SOAP fault; the  *)
(* others are bodies: with ReturnValue 0 or the element the caller wants   *)
(* ("data"), with ReturnValue 0 alone ("zero"), with ReturnValue 4096, job *)
(* started ("job"), with another value ("refused"), without ReturnValue    *)
(* but with the method's output ("output"), with nothing of use ("bare").  *)
(***************************************************************************)
Broken == {"lost", "fault"}
Bodies == {"data", "zero", "job", "refused", "output", "bare"}

\* The reply classes a request can get; only an Invoke has a ReturnValue.
Replies(kind) == Broken \cup (IF kind = "Invoke" THEN Bodies ELSE {"data", "bare"})

(***************************************************************************)
(* What an extractor accepts: the element it looks for; no fault at all;   *)
(* ReturnValue 0; ReturnValue 0 read with toInt() and no check, for which  *)
(* a missing one is 0; ReturnValue 0 or 4096; ReturnValue 0 or the bare    *)
(* output; ReturnValue 0 and the data that goes with it.                   *)
(***************************************************************************)
\* Mutant: any ReturnValue will do.
ReturnAnything == Bodies

Content == {"data"}
NoFault == Bodies
ReturnZero == {"data", "zero"}
ReturnZeroLoose == {"data", "zero", "output", "bare"}
ReturnJob == {"data", "zero", "job"}
ReturnOrOutput == {"data", "zero", "output"}
ReturnData == {"data"}

(***************************************************************************)
(* Requests.  A write has a name, by which the device remembers it; a      *)
(* request that is not `needed` is followed by the next whatever its reply.*)
(***************************************************************************)
NoName == "none"
Request(kind, name, accept, needed) ==
    [kind |-> kind, name |-> name, accept |-> accept, needed |-> needed]
Get(accept) == <<Request("Get", NoName, accept, TRUE)>>
Enum == <<Request("Enum", NoName, NoFault, TRUE)>>
Read(name, accept) == Request("Read", name, accept, TRUE)
Write(kind, name, accept) == Request(kind, name, accept, TRUE)

(***************************************************************************)
(* When an operation reports success: one of the sets of conditions holds. *)
(* Sound: the branch ended without an error.  HasRow: one of its rows has  *)
(* the key that the parser looks for.  FirstRow: the first one does.       *)
(* SomeRow: there is a row.  Unlike: two branches ended differently.       *)
(***************************************************************************)
Condition(what, b, c) == [what |-> what, of |-> b, and |-> c]
Sound(b) == Condition("sound", b, b)
HasRow(b) == Condition("has", b, b)
FirstRow(b) == Condition("first", b, b)
SomeRow(b) == Condition("some", b, b)
Unlike(b, c) == Condition("unlike", b, c)

(***************************************************************************)
(* Shapes.  A single request or chain is one branch, and reports success   *)
(* when it ends well.  `checked` operations first validate their input.    *)
(***************************************************************************)
Only(steps, checked) ==
    [branches |-> [main |-> steps], ok |-> {{Sound("main")}}, checked |-> checked]
One(steps) == Only(steps, FALSE)
Invoke(name, accept) == One(<<Write("Invoke", name, accept)>>)
CheckedInvoke(name, accept) == Only(<<Write("Invoke", name, accept)>>, TRUE)
Put(name) == One(<<Write("Put", name, NoFault)>>)
Delete(name) == One(<<Write("Delete", name, NoFault)>>)
CheckedDelete(name) == Only(<<Write("Delete", name, NoFault)>>, TRUE)
CheckedCreate(name) == Only(<<Write("Create", name, Content)>>, TRUE)
Listing(condition) == [branches |-> [main |-> Enum], ok |-> {condition}, checked |-> FALSE]

\* Parallel reads.  An instance keeps only the branches in Kept of the widest
\* reads: the others play the same part in the join as those that remain.
Fan(branches, ok) ==
    LET kept == {b \in DOMAIN branches : b \in Kept}
        about(conj) == {c \in conj : {c.of, c.and} \subseteq kept}
    IN  [branches |-> [b \in kept |-> branches[b]],
         ok |-> {about(conj) : conj \in {d \in ok : d = {} \/ about(d) # {}}},
         checked |-> FALSE]

(***************************************************************************)
(* Reads of one object or of one class.                                    *)
(***************************************************************************)
identify == One(<<Read(NoName, Content)>>)
getPowerState == One(Get(Content))
getGeneralSettings == One(Get(Content))
getComputerSystem == One(Get(Content))
getBootCapabilities == One(Get(NoFault))
getSetupAndConfiguration == One(Get(Content))
getTimeSettings == One(<<Read(NoName, Content)>>)
getAuditLogState == One(Get(NoFault))
getPublicPrivateKeyPair == One(Get(Content))
enumerateBootSourceSettings == Listing({Sound("main")})
getMeVersion == Listing({Sound("main"), HasRow("main")})
getWakeAlarms == Listing({Sound("main")})
getActiveFilterStatistics == Listing({Sound("main")})
executeBrowseGet == One(Get(NoFault))
executeBrowseEnumerate == Listing({Sound("main")})

(***************************************************************************)
(* Reads that join several requests.                                       *)
(***************************************************************************)
getEthernetSettings == Fan([eth |-> Enum, ipv6 |-> Enum], {{FirstRow("eth")}})
getRedirectionStatus == Fan([redir |-> Get(NoFault), kvm |-> Get(NoFault)],
                            {{Sound("redir")}})
getPowerSchemes == Fan([schemes |-> Enum, assoc |-> Enum],
                       {{Sound("schemes"), HasRow("schemes")}})
getAgentPresence == Fan([caps |-> Get(NoFault), watchdogs |-> Enum, actions |-> Enum],
                        {{Sound("watchdogs")}})
getEventSubscriptions ==
    Fan([filters |-> Enum, listeners |-> Enum, subscriptions |-> Enum],
        {{Sound("filters")}, {Sound("listeners")}, {Sound("subscriptions")}})
getSystemDefense ==
    Fan([policies |-> Enum, hdr |-> Enum, ip |-> Enum, stats |-> Enum,
         portBindings |-> Enum], {{}})
getHardwareInventory ==
    LET kinds == {"Chassis", "Card", "Bios", "SysPkg", "Processor", "Chip",
                  "PhysMem", "Media", "PhysPkg", "Battery"}
    IN  Fan([k \in kinds |-> Enum], {{Sound(k)} : k \in kinds})
getDeviceCertStore ==
    LET kinds == {"Cert", "KeyPair", "Tls", "Ctx"}
    IN  Fan([k \in kinds |-> Enum],
            {{Sound(k) : k \in kinds}, {SomeRow("Cert")}, {SomeRow("Tls")}})
getRemoteAccess ==
    Fan([EnvDetect |-> Get(NoFault), UserInit |-> Get(NoFault), PolicyRule |-> Enum,
         PolicyApplies |-> Enum, Mps |-> Enum, MpsAuth |-> Enum,
         ProxyService |-> Get(NoFault), ProxyAccessPoint |-> Enum],
        {{Sound("EnvDetect")}, {Sound("UserInit")}})
getWireless ==
    Fan([Port |-> Get(NoFault), Endpoint |-> Get(NoFault), ConfigSvc |-> Get(NoFault),
         EndpointSettings |-> Enum, IEEE8021xSettings |-> Enum,
         Wired8021x |-> Get(NoFault)], {{}})
getActiveSessions ==
    Fan([Sol |-> Enum, Kvm |-> Enum, Ider |-> Enum],
        {{Sound("Sol")}, {Unlike("Sol", "Kvm")}, {Unlike("Kvm", "Ider")}})

(***************************************************************************)
(* Chains.                                                                 *)
(***************************************************************************)
requestPowerStateChange == Invoke("RequestPowerStateChange", ReturnZero)

\* runPerformBootAction without and with a boot source; every step goes through
\* runChainStep, the last through requestPowerStateChange.
BootAction(source) ==
    One(<<Write("Invoke", "ChangeBootOrder(clear)", ReturnZero),
          Write("Put", "AMT_BootSettingData", NoFault),
          Write("Invoke", "SetBootConfigRole", ReturnZero)>>
        \o source \o requestPowerStateChange.branches.main)
performBootAction == BootAction(<<>>)
performBootActionFrom ==
    BootAction(<<Write("Invoke", "ChangeBootOrder(source)", ReturnZero)>>)

getOptInStatus == One(<<Request("Get", NoName, NoFault, TRUE),
                        Request("Get", NoName, NoFault, FALSE)>>)
setKvmOptInPolicy == One(<<Read("kvm settings", NoFault),
                           Write("Put", "kvm settings", NoFault)>>)
setKvmSettings == setKvmOptInPolicy

(***************************************************************************)
(* Writes.                                                                 *)
(***************************************************************************)
registerWatchdogAgent == CheckedInvoke("RegisterAgent", ReturnOrOutput)
deleteAgentPresenceWatchdog == CheckedDelete("watchdog")
addAgentPresenceWatchdogAction == CheckedInvoke("AddAction", ReturnOrOutput)
deleteAgentPresenceWatchdogAction == CheckedDelete("watchdog action")
SubscribeRequest == Write("Create", "subscription", Content)
subscribeToEventFilter == Only(<<SubscribeRequest>>, TRUE)
UnsubscribeRequest == Write("Delete", "subscription", NoFault)
unsubscribeFromEventFilter == Only(<<UnsubscribeRequest>>, TRUE)
addWakeAlarm == CheckedInvoke("AddAlarm", ReturnOrOutput)
deleteWakeAlarm == CheckedDelete("alarm")
deleteByInstanceId == CheckedDelete("instance")
addHdr8021Filter == CheckedCreate("802.1 filter")
addIpHeadersFilter == CheckedCreate("IP filter")
addSystemDefensePolicy == CheckedCreate("policy")
BindRequest == Write("Create", "binding", Content)
bindSystemDefensePolicyToPort == Only(<<BindRequest>>, TRUE)
UnbindRequest == Write("Delete", "binding", NoFault)
unbindSystemDefensePolicyFromPort == Only(<<UnbindRequest>>, TRUE)
setPowerScheme == Invoke("SetPowerScheme", ReturnZero)
setHighAccuracyTimeSync == Invoke("SetHighAccuracyTimeSynch", ReturnZero)
requestOsPowerStateChange == Invoke("RequestOSPowerSavingStateChange", ReturnZero)
addUserAclEntryEx == Invoke("AddUserAclEntryEx", ReturnZeroLoose)
updateUserAclEntryEx == Invoke("UpdateUserAclEntryEx", ReturnZeroLoose)
removeUserAclEntry == Invoke("RemoveUserAclEntry", ReturnZeroLoose)
setAclEnabledState == Invoke("SetAclEnabledState", ReturnZeroLoose)
setAdminAclEntryEx == Invoke("SetAdminAclEntryEx", ReturnZeroLoose)
startOptIn == Invoke("StartOptIn", ReturnZeroLoose)
sendOptInCode == Invoke("SendOptInCode", ReturnZeroLoose)
cancelOptIn == Invoke("CancelOptIn", ReturnZeroLoose)
setKvmRedirectionEnabled == Invoke("RequestStateChange", ReturnJob)
addTrustedRootCertificate == Invoke("AddTrustedRootCertificate", ReturnZeroLoose)
addCertificate == Invoke("AddCertificate", ReturnZeroLoose)
deleteDeviceCertificate == Delete("certificate")
deleteDeviceKeyPair == Delete("key pair")
setTlsSettings == Put("TLS settings")
generateKeyPair == Invoke("GenerateKeyPair", ReturnData)
Pkcs10Request == Write("Invoke", "GeneratePKCS10RequestEx", ReturnData)
generatePkcs10Request == One(<<Pkcs10Request>>)
CredentialContextPut == Write("Put", "TLS credential context", NoFault)
bindCertToTlsEndpoint == One(<<CredentialContextPut>>)
addHttpProxy == Invoke("AddProxyAccessPoint", ReturnZeroLoose)
deleteHttpProxy == Delete("proxy")
WiFiRequest(name) == Write("Invoke", name, ReturnJob)
addWiFiSettingsPsk == One(<<WiFiRequest("AddWiFiSettings")>>)
updateWiFiSettingsPsk == One(<<WiFiRequest("UpdateWiFiSettings")>>)
deleteWiFiProfile == Delete("wifi profile")
deleteAllITWiFiProfiles == Invoke("DeleteAllITProfiles", ReturnJob)
deleteAllUserWiFiProfiles == Invoke("DeleteAllUserProfiles", ReturnJob)
setWiFiPortState == Invoke("RequestStateChange", ReturnJob)
setWiFiSyncSettings == Put("wifi sync settings")
setWired8021xProfile == Put("802.1x profile")
setEnvironmentDetection == Put("environment detection")
setUserInitiatedConnectionState == Invoke("RequestStateChange", ReturnJob)
addMpServer == Invoke("AddMpServer", ReturnZeroLoose)
updateMpServer == Put("MPS")
removeMpServer == Delete("MPS")
addRemoteAccessPolicyRule == Invoke("AddRemoteAccessPolicyRule", ReturnZeroLoose)
removeRemoteAccessPolicyRule == Delete("policy rule")
clearAuditLog == Invoke("ClearLog", ReturnZero)
clearEventLog == Invoke("ClearLog", ReturnZero)
\* Every operation, by name.
Catalogue ==
    [identify |-> identify, getPowerState |-> getPowerState,
     getGeneralSettings |-> getGeneralSettings, getComputerSystem |-> getComputerSystem,
     getBootCapabilities |-> getBootCapabilities,
     getSetupAndConfiguration |-> getSetupAndConfiguration, getTimeSettings |-> getTimeSettings,
     getAuditLogState |-> getAuditLogState, getPublicPrivateKeyPair |-> getPublicPrivateKeyPair,
     enumerateBootSourceSettings |-> enumerateBootSourceSettings, getMeVersion |-> getMeVersion,
     getWakeAlarms |-> getWakeAlarms, getActiveFilterStatistics |-> getActiveFilterStatistics,
     executeBrowseGet |-> executeBrowseGet, executeBrowseEnumerate |-> executeBrowseEnumerate,
     getEthernetSettings |-> getEthernetSettings, getRedirectionStatus |-> getRedirectionStatus,
     getPowerSchemes |-> getPowerSchemes, getAgentPresence |-> getAgentPresence,
     getEventSubscriptions |-> getEventSubscriptions, getSystemDefense |-> getSystemDefense,
     getHardwareInventory |-> getHardwareInventory, getDeviceCertStore |-> getDeviceCertStore,
     getRemoteAccess |-> getRemoteAccess, getWireless |-> getWireless,
     getActiveSessions |-> getActiveSessions,
     requestPowerStateChange |-> requestPowerStateChange,
     performBootAction |-> performBootAction, performBootActionFrom |-> performBootActionFrom,
     getOptInStatus |-> getOptInStatus, setKvmOptInPolicy |-> setKvmOptInPolicy,
     setKvmSettings |-> setKvmSettings, registerWatchdogAgent |-> registerWatchdogAgent,
     deleteAgentPresenceWatchdog |-> deleteAgentPresenceWatchdog,
     addAgentPresenceWatchdogAction |-> addAgentPresenceWatchdogAction,
     deleteAgentPresenceWatchdogAction |-> deleteAgentPresenceWatchdogAction,
     subscribeToEventFilter |-> subscribeToEventFilter,
     unsubscribeFromEventFilter |-> unsubscribeFromEventFilter, addWakeAlarm |-> addWakeAlarm,
     deleteWakeAlarm |-> deleteWakeAlarm, deleteByInstanceId |-> deleteByInstanceId,
     addHdr8021Filter |-> addHdr8021Filter, addIpHeadersFilter |-> addIpHeadersFilter,
     addSystemDefensePolicy |-> addSystemDefensePolicy,
     bindSystemDefensePolicyToPort |-> bindSystemDefensePolicyToPort,
     unbindSystemDefensePolicyFromPort |-> unbindSystemDefensePolicyFromPort,
     setPowerScheme |-> setPowerScheme, setHighAccuracyTimeSync |-> setHighAccuracyTimeSync,
     requestOsPowerStateChange |-> requestOsPowerStateChange,
     addUserAclEntryEx |-> addUserAclEntryEx, updateUserAclEntryEx |-> updateUserAclEntryEx,
     removeUserAclEntry |-> removeUserAclEntry, setAclEnabledState |-> setAclEnabledState,
     setAdminAclEntryEx |-> setAdminAclEntryEx, startOptIn |-> startOptIn,
     sendOptInCode |-> sendOptInCode, cancelOptIn |-> cancelOptIn,
     setKvmRedirectionEnabled |-> setKvmRedirectionEnabled,
     addTrustedRootCertificate |-> addTrustedRootCertificate, addCertificate |-> addCertificate,
     deleteDeviceCertificate |-> deleteDeviceCertificate,
     deleteDeviceKeyPair |-> deleteDeviceKeyPair, setTlsSettings |-> setTlsSettings,
     generateKeyPair |-> generateKeyPair, generatePkcs10Request |-> generatePkcs10Request,
     bindCertToTlsEndpoint |-> bindCertToTlsEndpoint, addHttpProxy |-> addHttpProxy,
     deleteHttpProxy |-> deleteHttpProxy, addWiFiSettingsPsk |-> addWiFiSettingsPsk,
     updateWiFiSettingsPsk |-> updateWiFiSettingsPsk, deleteWiFiProfile |-> deleteWiFiProfile,
     deleteAllITWiFiProfiles |-> deleteAllITWiFiProfiles,
     deleteAllUserWiFiProfiles |-> deleteAllUserWiFiProfiles,
     setWiFiPortState |-> setWiFiPortState, setWiFiSyncSettings |-> setWiFiSyncSettings,
     setWired8021xProfile |-> setWired8021xProfile,
     setEnvironmentDetection |-> setEnvironmentDetection,
     setUserInitiatedConnectionState |-> setUserInitiatedConnectionState,
     addMpServer |-> addMpServer, updateMpServer |-> updateMpServer,
     removeMpServer |-> removeMpServer, addRemoteAccessPolicyRule |-> addRemoteAccessPolicyRule,
     removeRemoteAccessPolicyRule |-> removeRemoteAccessPolicyRule,
     clearAuditLog |-> clearAuditLog, clearEventLog |-> clearEventLog]
=============================================================================
