-------------------------- MODULE DetailsCatalogue --------------------------
(***************************************************************************)
(* The reads and the changes of MachineDetailsController                   *)
(* (app/src/machinedetailscontroller.cpp), as data; MachineDetails runs    *)
(* them.  What a section shows, the checks of a dialog's fields and the    *)
(* texts of errors are left out: a call that fails a check, or is made     *)
(* without a host, returns having set m_lastError and nothing else.        *)
(***************************************************************************)
EXTENDS Sequences, Subsequences

\* The sections of refreshOverview that an instance keeps: it sends nine
\* requests at once, and the ones left out are like the ones that remain.
CONSTANT KeptSections

\* One of them can be changed from here.
ASSUME KeptAssumption == "redirection" \in KeptSections

(***************************************************************************)
(* A read: the bit by which it is deferred while the tunnel connects, the  *)
(* sections it fetches at once, and the refresh it ends with.              *)
(***************************************************************************)
Read(bit, sections, also) == [bit |-> bit, sections |-> sections, also |-> also]
Fetch(bit, section) == Read(bit, <<section>>, "none")

refreshOverview ==
    LET all == <<"identify", "power", "general", "meVersion", "setup", "redirection",
                 "system", "bootCapabilities">>
    IN  Read("Overview", Among(all, KeptSections), "refreshOptInStatus")
refreshOptInStatus == Fetch("Overview", "optIn")
refreshNetwork == Fetch("Network", "ethernet")
refreshTime == Fetch("Time", "time")
refreshEventLog == Fetch("EventLog", "eventLog")
refreshHardware == Fetch("Hardware", "hardware")
refreshWireless == Fetch("Wireless", "wireless")
refreshAgentPresence == Fetch("AgentPresence", "agents")
refreshEventSubscriptions == Fetch("EventSubscriptions", "subscriptions")
refreshWakeAlarms == Fetch("WakeAlarms", "alarms")
refreshSystemDefense == Fetch("SystemDefense", "defense")
refreshRemoteAccess == Fetch("RemoteAccess", "remoteAccess")
refreshDeviceCerts == Fetch("DeviceCerts", "certs")
refreshActiveSessions == Fetch("ActiveSessions", "sessions")
refreshAuditLog == Read("AuditLog", <<"auditState", "auditLog">>, "none")
refreshUserAccounts == Fetch("UserAccounts", "accounts")
refreshPower == Read("Power", <<"power">>, "refreshPowerSchemes")
refreshPowerSchemes == Fetch("Power", "schemes")

Reads ==
    [refreshOverview |-> refreshOverview, refreshOptInStatus |-> refreshOptInStatus,
     refreshNetwork |-> refreshNetwork, refreshTime |-> refreshTime,
     refreshEventLog |-> refreshEventLog, refreshHardware |-> refreshHardware,
     refreshWireless |-> refreshWireless, refreshAgentPresence |-> refreshAgentPresence,
     refreshEventSubscriptions |-> refreshEventSubscriptions,
     refreshWakeAlarms |-> refreshWakeAlarms, refreshSystemDefense |-> refreshSystemDefense,
     refreshRemoteAccess |-> refreshRemoteAccess, refreshDeviceCerts |-> refreshDeviceCerts,
     refreshActiveSessions |-> refreshActiveSessions, refreshAuditLog |-> refreshAuditLog,
     refreshUserAccounts |-> refreshUserAccounts, refreshPower |-> refreshPower,
     refreshPowerSchemes |-> refreshPowerSchemes]

\* runPendingRefreshes(): what each bit stands for, in the order of the replay.
PendingOrder ==
    <<"refreshOverview", "refreshPower", "refreshNetwork", "refreshTime", "refreshEventLog",
      "refreshUserAccounts", "refreshHardware", "refreshAuditLog", "refreshActiveSessions",
      "refreshDeviceCerts", "refreshRemoteAccess", "refreshWireless", "refreshAgentPresence",
      "refreshEventSubscriptions", "refreshWakeAlarms", "refreshSystemDefense">>

\* Mutant: a change that leaves the section as it was shown.
ForgetsRefresh(section, read) ==
    [gate |-> "none", steps |-> <<"write">>, section |-> section, read |-> read,
     reread |-> "never"]

(***************************************************************************)
(* A change: the bit by which it too is deferred, if any; its requests,    *)
(* each sent when the one before succeeded; the section of the device that *)
(* its writes change; the refresh at its end, and whether that follows     *)
(* success, the last request whatever its outcome, or any outcome.         *)
(***************************************************************************)
Change(section, read) ==
    [gate |-> "none", steps |-> <<"write">>, section |-> section, read |-> read,
     reread |-> "success"]
Chain(section, read, steps) == [Change(section, read) EXCEPT !.steps = steps]
Replace(section, read) ==
    [Chain(section, read, <<"write", "write">>) EXCEPT !.reread = "last"]

setKvmOptInPolicyEnabled == Change("optIn", "refreshOptInStatus")
setKvmSettings == [Change("optIn", "refreshOptInStatus") EXCEPT !.reread = "always"]
setKvmServiceEnabled == [Change("redirection", "refreshOverview") EXCEPT !.reread = "always"]
syncDeviceTime ==
    [Chain("time", "none", <<"read", "write", "show">>) EXCEPT !.gate = "Time", !.reread = "never"]

addWiFiPskProfile == Change("wireless", "refreshWireless")
updateWiFiPskProfile == Change("wireless", "refreshWireless")
deleteWiFiProfile == Change("wireless", "refreshWireless")
deleteAllITWiFiProfiles == Change("wireless", "refreshWireless")
deleteAllUserWiFiProfiles == Change("wireless", "refreshWireless")
setWifiPortEnabled == Change("wireless", "refreshWireless")
setWifiSyncSettings == Change("wireless", "refreshWireless")
setWiredEnterpriseProfile == Change("wireless", "refreshWireless")

addAgentPresenceWatchdog == Change("agents", "refreshAgentPresence")
deleteAgentPresenceWatchdog == Change("agents", "refreshAgentPresence")
replaceAgentPresenceWatchdog == Replace("agents", "refreshAgentPresence")
addWatchdogAction == Change("agents", "refreshAgentPresence")
deleteWatchdogAction == Change("agents", "refreshAgentPresence")

subscribeToEventFilter == Change("subscriptions", "refreshEventSubscriptions")
unsubscribeFromEventFilter == Change("subscriptions", "refreshEventSubscriptions")
addWakeAlarm == Change("alarms", "refreshWakeAlarms")
deleteWakeAlarm == Change("alarms", "refreshWakeAlarms")
replaceWakeAlarm == Replace("alarms", "refreshWakeAlarms")

deleteSystemDefensePolicy == Change("defense", "refreshSystemDefense")
deleteSystemDefenseHdrFilter == Change("defense", "refreshSystemDefense")
deleteSystemDefenseIpFilter == Change("defense", "refreshSystemDefense")
bindSystemDefensePolicy == Change("defense", "refreshSystemDefense")
unbindSystemDefensePolicy == Change("defense", "refreshSystemDefense")
addSystemDefensePolicyAction == Change("defense", "refreshSystemDefense")
addSystemDefenseIpFilter == Change("defense", "refreshSystemDefense")
addSystemDefenseHdrFilter == Change("defense", "refreshSystemDefense")

addCertificateFromPem == Change("certs", "refreshDeviceCerts")
deleteDeviceCertificate == Change("certs", "refreshDeviceCerts")
deleteDeviceKeyPair == Change("certs", "refreshDeviceCerts")
setTlsSettingsForInstance == Change("certs", "refreshDeviceCerts")
generateKeyPairAndCsr ==
    [Chain("certs", "none", <<"write", "read", "read">>) EXCEPT !.reread = "never"]
installSignedCertAndBindTls ==
    Chain("certs", "refreshDeviceCerts", <<"write", "read", "write">>)

addHttpProxy == Change("remoteAccess", "refreshRemoteAccess")
deleteHttpProxy == Change("remoteAccess", "refreshRemoteAccess")
setEnvironmentDetection == Change("remoteAccess", "refreshRemoteAccess")
setUserInitiatedConnectionState == Change("remoteAccess", "refreshRemoteAccess")
addMpServer == Change("remoteAccess", "refreshRemoteAccess")
updateMpServer == Change("remoteAccess", "refreshRemoteAccess")
removeMpServer == Change("remoteAccess", "refreshRemoteAccess")
addCiraPolicyRule == Change("remoteAccess", "refreshRemoteAccess")
removeCiraPolicyRule == Change("remoteAccess", "refreshRemoteAccess")

addUserAccount == Change("accounts", "refreshUserAccounts")
updateUserAccount == Change("accounts", "refreshUserAccounts")
removeUserAccount == Change("accounts", "refreshUserAccounts")
setAccountEnabled == Change("accounts", "refreshUserAccounts")
setAdminPassword == Change("accounts", "refreshUserAccounts")

setPowerScheme ==
    [Change("schemes", "refreshPowerSchemes") EXCEPT !.gate = "Power", !.reread = "always"]
bootToBios == Change("power", "refreshPower")
bootToPxe == Change("power", "refreshPower")
bootToIderCdrom == Change("power", "refreshPower")
bootToIderFloppy == Change("power", "refreshPower")
osWakeFromSleep == Change("power", "refreshPower")
osPutToSleep == Change("power", "refreshPower")
bootToSecureErase == Change("power", "refreshPower")
bootToPlatformErase == Change("power", "refreshPower")
bootToHttpsBootUrl == Change("power", "refreshPower")
changePowerState == Change("power", "refreshPower")
bootToWinRE == Chain("power", "refreshPower", <<"read", "write">>)
bootToLocalPBA == Chain("power", "refreshPower", <<"read", "write">>)
bootToOcrHttpsUrl == Change("power", "refreshPower")

\* Two reads on demand: no bit, no resumption, nothing after them.
wsmanBrowse == [Chain("browse", "none", <<"show">>) EXCEPT !.reread = "never"]
refreshSystemDefenseStats == [Chain("defense", "none", <<"read">>) EXCEPT !.reread = "never"]

Changes ==
    [setKvmOptInPolicyEnabled |-> setKvmOptInPolicyEnabled,
     setKvmSettings |-> setKvmSettings, setKvmServiceEnabled |-> setKvmServiceEnabled,
     syncDeviceTime |-> syncDeviceTime, addWiFiPskProfile |-> addWiFiPskProfile,
     updateWiFiPskProfile |-> updateWiFiPskProfile,
     deleteWiFiProfile |-> deleteWiFiProfile,
     deleteAllITWiFiProfiles |-> deleteAllITWiFiProfiles,
     deleteAllUserWiFiProfiles |-> deleteAllUserWiFiProfiles,
     setWifiPortEnabled |-> setWifiPortEnabled,
     setWifiSyncSettings |-> setWifiSyncSettings,
     setWiredEnterpriseProfile |-> setWiredEnterpriseProfile,
     addAgentPresenceWatchdog |-> addAgentPresenceWatchdog,
     deleteAgentPresenceWatchdog |-> deleteAgentPresenceWatchdog,
     replaceAgentPresenceWatchdog |-> replaceAgentPresenceWatchdog,
     addWatchdogAction |-> addWatchdogAction,
     deleteWatchdogAction |-> deleteWatchdogAction,
     subscribeToEventFilter |-> subscribeToEventFilter,
     unsubscribeFromEventFilter |-> unsubscribeFromEventFilter,
     addWakeAlarm |-> addWakeAlarm, deleteWakeAlarm |-> deleteWakeAlarm,
     replaceWakeAlarm |-> replaceWakeAlarm,
     deleteSystemDefensePolicy |-> deleteSystemDefensePolicy,
     deleteSystemDefenseHdrFilter |-> deleteSystemDefenseHdrFilter,
     deleteSystemDefenseIpFilter |-> deleteSystemDefenseIpFilter,
     bindSystemDefensePolicy |-> bindSystemDefensePolicy,
     unbindSystemDefensePolicy |-> unbindSystemDefensePolicy,
     addSystemDefensePolicyAction |-> addSystemDefensePolicyAction,
     addSystemDefenseIpFilter |-> addSystemDefenseIpFilter,
     addSystemDefenseHdrFilter |-> addSystemDefenseHdrFilter,
     addCertificateFromPem |-> addCertificateFromPem,
     deleteDeviceCertificate |-> deleteDeviceCertificate,
     deleteDeviceKeyPair |-> deleteDeviceKeyPair,
     setTlsSettingsForInstance |-> setTlsSettingsForInstance,
     generateKeyPairAndCsr |-> generateKeyPairAndCsr,
     installSignedCertAndBindTls |-> installSignedCertAndBindTls,
     addHttpProxy |-> addHttpProxy, deleteHttpProxy |-> deleteHttpProxy,
     setEnvironmentDetection |-> setEnvironmentDetection,
     setUserInitiatedConnectionState |-> setUserInitiatedConnectionState,
     addMpServer |-> addMpServer, updateMpServer |-> updateMpServer,
     removeMpServer |-> removeMpServer, addCiraPolicyRule |-> addCiraPolicyRule,
     removeCiraPolicyRule |-> removeCiraPolicyRule, addUserAccount |-> addUserAccount,
     updateUserAccount |-> updateUserAccount, removeUserAccount |-> removeUserAccount,
     setAccountEnabled |-> setAccountEnabled, setAdminPassword |-> setAdminPassword,
     setPowerScheme |-> setPowerScheme, bootToBios |-> bootToBios, bootToPxe |-> bootToPxe,
     bootToIderCdrom |-> bootToIderCdrom, bootToIderFloppy |-> bootToIderFloppy,
     osWakeFromSleep |-> osWakeFromSleep, osPutToSleep |-> osPutToSleep,
     bootToSecureErase |-> bootToSecureErase, bootToPlatformErase |-> bootToPlatformErase,
     bootToHttpsBootUrl |-> bootToHttpsBootUrl, changePowerState |-> changePowerState,
     bootToWinRE |-> bootToWinRE, bootToLocalPBA |-> bootToLocalPBA,
     bootToOcrHttpsUrl |-> bootToOcrHttpsUrl, wsmanBrowse |-> wsmanBrowse,
     refreshSystemDefenseStats |-> refreshSystemDefenseStats]

ChangeOps == DOMAIN Changes

\* The bits of m_pendingRefreshes.
Bits == {Reads[r].bit : r \in DOMAIN Reads} \cup {Changes[w].gate : w \in DOMAIN Changes}

Sections ==
    (UNION {{Reads[r].sections[i] : i \in DOMAIN Reads[r].sections} : r \in DOMAIN Reads})
      \cup {Changes[w].section : w \in DOMAIN Changes}
=============================================================================
