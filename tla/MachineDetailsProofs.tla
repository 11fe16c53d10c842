------------------------ MODULE MachineDetailsProofs -------------------------
(***************************************************************************)
(* Proofs about MachineDetailsController: one status read at a time, what  *)
(* the sections show after changes, and consent before a session; for      *)
(* every menu of reads, changes, tabs and tunnels.                         *)
(***************************************************************************)
EXTENDS MachineDetails, SubsequencesProofs, FiniteSetTheorems, TLAPS

(***************************************************************************)
(* The catalogue.                                                          *)
(***************************************************************************)
Steps == {"read", "write", "show"}
ReadNames == DOMAIN Reads \cup {"none"}

\* Read r fetches section s.
Fetches(r, s) ==
    r \in DOMAIN Reads /\ \E i \in 1..Len(Reads[r].sections) : Reads[r].sections[i] = s

\* The sections that the end of a change shows again, if it has written any.
Mends(c) ==
    \/ c.reread \in {"success", "last", "always"} /\ Fetches(c.read, c.section)
    \/ /\ c.reread = "never"
       /\ c.steps[Len(c.steps)] = "show"
    \/ \A k \in 1..Len(c.steps) : c.steps[k] # "write"

ChangeTyped(c) ==
    /\ c.steps \in Seq(Steps) /\ Len(c.steps) > 0
    /\ c.read \in ReadNames

ChangeFine(c) == ChangeTyped(c) /\ Mends(c)

ReadFine(d) ==
    /\ \E S : d.sections \in Seq(S)
    /\ d.also \in {"none", "refreshOptInStatus", "refreshPowerSchemes"}

LEMMA OverviewFine ==
    /\ ReadFine(refreshOverview)
    /\ \E i \in 1..Len(refreshOverview.sections) : refreshOverview.sections[i] = "redirection"
    /\ \A i \in 1..Len(refreshOverview.sections) : refreshOverview.sections[i] # "optIn"
  <1> DEFINE p == <<"identify", "power", "general", "meVersion", "setup">>
             t == <<"system", "bootCapabilities">>
             S == {"identify", "power", "general", "meVersion", "setup", "redirection",
                   "system", "bootCapabilities"}
             all == <<"identify", "power", "general", "meVersion", "setup", "redirection",
                      "system", "bootCapabilities">>
             q == Append(p, "redirection")
             K == KeptSections
  <1>1. p \in Seq(S) /\ t \in Seq(S) /\ q \in Seq(S) /\ "redirection" \in S /\ "optIn" \notin S
    OBVIOUS
  <1>2. all = q \o t
    OBVIOUS
  <1>3. refreshOverview = [bit |-> "Overview", sections |-> Among(all, K),
                           also |-> "refreshOptInStatus"]
    BY DEF refreshOverview, Read
  <1> HIDE DEF p, t, S, all, q, K
  <1>4. Among(all, K) = Among(q, K) \o Among(t, K)
    BY <1>1, <1>2, AmongJoins
  <1>5. "redirection" \in K
    BY KeptAssumption DEF K
  <1>6. Among(q, K) = Append(Among(p, K), "redirection")
    BY <1>1, <1>5, AmongSteps DEF q
  <1>7. Among(p, K) \in Seq(S) /\ Among(t, K) \in Seq(S)
    BY <1>1, AmongTyped
  <1> DEFINE a == Among(p, K)
             b == Among(t, K)
             r == Append(a, "redirection") \o b
  <1>8. r \in Seq(S) /\ Len(a) + 1 \in 1..Len(r) /\ r[Len(a) + 1] = "redirection"
    BY <1>1, <1>7
  <1>9. refreshOverview.sections = r /\ refreshOverview.also = "refreshOptInStatus"
    BY <1>3, <1>4, <1>6
  <1> HIDE DEF a, b, r
  <1>10. \A i \in 1..Len(r) : r[i] # "optIn"
    BY <1>1, <1>8
  <1> QED BY <1>8, <1>9, <1>10 DEF ReadFine

LEMMA ReadsAre ==
    /\ DOMAIN Reads =
         {"refreshOverview", "refreshOptInStatus", "refreshNetwork", "refreshTime",
          "refreshEventLog", "refreshHardware", "refreshWireless", "refreshAgentPresence",
          "refreshEventSubscriptions", "refreshWakeAlarms", "refreshSystemDefense",
          "refreshRemoteAccess", "refreshDeviceCerts", "refreshActiveSessions",
          "refreshAuditLog", "refreshUserAccounts", "refreshPower", "refreshPowerSchemes"}
    /\ Reads["refreshOverview"] = refreshOverview
    /\ Reads["refreshOptInStatus"] = refreshOptInStatus
    /\ Reads["refreshNetwork"] = refreshNetwork
    /\ Reads["refreshTime"] = refreshTime
    /\ Reads["refreshEventLog"] = refreshEventLog
    /\ Reads["refreshHardware"] = refreshHardware
    /\ Reads["refreshWireless"] = refreshWireless
    /\ Reads["refreshAgentPresence"] = refreshAgentPresence
    /\ Reads["refreshEventSubscriptions"] = refreshEventSubscriptions
    /\ Reads["refreshWakeAlarms"] = refreshWakeAlarms
    /\ Reads["refreshSystemDefense"] = refreshSystemDefense
    /\ Reads["refreshRemoteAccess"] = refreshRemoteAccess
    /\ Reads["refreshDeviceCerts"] = refreshDeviceCerts
    /\ Reads["refreshActiveSessions"] = refreshActiveSessions
    /\ Reads["refreshAuditLog"] = refreshAuditLog
    /\ Reads["refreshUserAccounts"] = refreshUserAccounts
    /\ Reads["refreshPower"] = refreshPower
    /\ Reads["refreshPowerSchemes"] = refreshPowerSchemes
  BY DEF Reads

\* What a read other than the overview is: one section, or two.
LEMMA FetchFine ==
    /\ \A b, s : ReadFine(Fetch(b, s)) /\ Fetch(b, s).sections = <<s>> /\ Fetch(b, s).bit = b
                 /\ Fetch(b, s).also = "none"
    /\ ReadFine(refreshAuditLog) /\ refreshAuditLog.sections = <<"auditState", "auditLog">>
    /\ ReadFine(refreshPower) /\ refreshPower.sections = <<"power">>
  <1>1. \A b, s : /\ Fetch(b, s).sections = <<s>> /\ Fetch(b, s).bit = b
                  /\ Fetch(b, s).also = "none"
    BY DEF Fetch, Read
  <1>2. \A s : <<s>> \in Seq({s})
    OBVIOUS
  <1>3. <<"auditState", "auditLog">> \in Seq({"auditState", "auditLog"})
    OBVIOUS
  <1>4. refreshAuditLog.sections = <<"auditState", "auditLog">> /\ refreshAuditLog.also = "none"
        /\ refreshPower.sections = <<"power">> /\ refreshPower.also = "refreshPowerSchemes"
    BY DEF refreshAuditLog, refreshPower, Read
  <1>5. ASSUME NEW d, NEW S, d.sections \in Seq(S),
               d.also \in {"none", "refreshOptInStatus", "refreshPowerSchemes"}
        PROVE  ReadFine(d)
    <2>1. \E T : d.sections \in Seq(T)
      BY <1>5
    <2> QED BY <1>5, <2>1 DEF ReadFine
  <1>6. \A b, s : ReadFine(Fetch(b, s))
    <2> TAKE b, s
    <2> DEFINE d == Fetch(b, s)
    <2>1. d.sections \in Seq({s}) /\ d.also = "none"
      BY <1>1, <1>2
    <2> HIDE DEF d
    <2>2. ReadFine(d)
      BY <1>5, <2>1
    <2> QED BY <2>2 DEF d
  <1>7. ReadFine(refreshAuditLog)
    BY <1>3, <1>4, <1>5
  <1>8. ReadFine(refreshPower)
    <2>1. refreshPower.sections \in Seq({"power"})
      BY <1>2, <1>4
    <2> QED BY <1>4, <1>5, <2>1
  <1> QED BY <1>1, <1>4, <1>6, <1>7, <1>8

LEMMA ReadsFine == \A r \in DOMAIN Reads : ReadFine(Reads[r])
  BY ReadsAre, FetchFine, OverviewFine
     DEF refreshOptInStatus, refreshNetwork, refreshTime, refreshEventLog, refreshHardware,
         refreshWireless, refreshAgentPresence, refreshEventSubscriptions, refreshWakeAlarms,
         refreshSystemDefense, refreshRemoteAccess, refreshDeviceCerts, refreshActiveSessions,
         refreshUserAccounts, refreshPowerSchemes

\* Reads of one section.
LEMMA FetchesOne ==
    /\ Fetches("refreshTime", "time") /\ Fetches("refreshWireless", "wireless")
    /\ Fetches("refreshAgentPresence", "agents")
    /\ Fetches("refreshEventSubscriptions", "subscriptions")
    /\ Fetches("refreshWakeAlarms", "alarms") /\ Fetches("refreshSystemDefense", "defense")
    /\ Fetches("refreshRemoteAccess", "remoteAccess") /\ Fetches("refreshDeviceCerts", "certs")
    /\ Fetches("refreshUserAccounts", "accounts") /\ Fetches("refreshPower", "power")
    /\ Fetches("refreshPowerSchemes", "schemes") /\ Fetches("refreshOverview", "redirection")
    /\ Fetches("refreshOptInStatus", "optIn")
  <1>1. ASSUME NEW r \in DOMAIN Reads, NEW s, Reads[r].sections = <<s>>
        PROVE  Fetches(r, s)
    <2>1. 1 \in 1..Len(<<s>>) /\ <<s>>[1] = s
      OBVIOUS
    <2> QED BY <1>1, <2>1 DEF Fetches
  <1>2. Fetches("refreshOverview", "redirection")
    BY ReadsAre, OverviewFine DEF Fetches
  <1> QED
    BY <1>1, <1>2, ReadsAre, FetchFine
       DEF refreshTime, refreshWireless, refreshAgentPresence, refreshEventSubscriptions,
           refreshWakeAlarms, refreshSystemDefense, refreshRemoteAccess, refreshDeviceCerts,
           refreshUserAccounts, refreshPowerSchemes, refreshOptInStatus

\* The replay of a bit fetches whatever the reads that were deferred with it fetch.
Replays(q, b, s) ==
    /\ Reads[q].bit = b
    /\ Fetches(q, s) \/ Fetches(Reads[q].also, s)

LEMMA OrderFine ==
    /\ Len(PendingOrder) = 16
    /\ \A k \in 1..16 : PendingOrder[k] \in DOMAIN Reads /\ PendingOrder[k] # "refreshOptInStatus"
    /\ \A r \in DOMAIN Reads \ {"refreshOptInStatus", "refreshPowerSchemes"} :
          \E k \in 1..16 : PendingOrder[k] = r
  BY ReadsAre DEF PendingOrder

LEMMA ReplayFine ==
    \A r \in DOMAIN Reads : \A s :
        Fetches(r, s) => \E k \in 1..16 : Replays(PendingOrder[k], Reads[r].bit, s)
  <1> SUFFICES ASSUME NEW r \in DOMAIN Reads, NEW s, Fetches(r, s)
               PROVE  \E k \in 1..16 : Replays(PendingOrder[k], Reads[r].bit, s)
    OBVIOUS
  <1>1. CASE r \notin {"refreshOptInStatus", "refreshPowerSchemes"}
    BY <1>1, OrderFine DEF Replays
  <1>2. CASE r = "refreshOptInStatus"
    <2>1. /\ Reads["refreshOverview"].bit = Reads[r].bit
          /\ Reads["refreshOverview"].also = "refreshOptInStatus"
      BY <1>2, ReadsAre DEF refreshOverview, refreshOptInStatus, Read, Fetch
    <2>2. Replays("refreshOverview", Reads[r].bit, s)
      BY <1>2, <2>1 DEF Replays
    <2> QED BY <2>2, ReadsAre, OrderFine
  <1>3. CASE r = "refreshPowerSchemes"
    <2>1. /\ Reads["refreshPower"].bit = Reads[r].bit
          /\ Reads["refreshPower"].also = "refreshPowerSchemes"
      BY <1>3, ReadsAre DEF refreshPower, refreshPowerSchemes, Read, Fetch
    <2>2. Replays("refreshPower", Reads[r].bit, s)
      BY <1>3, <2>1 DEF Replays
    <2> QED BY <2>2, ReadsAre, OrderFine
  <1> QED BY <1>1, <1>2, <1>3

\* A plain change that reads again what it wrote.
LEMMA ChangeShape ==
    ASSUME NEW section, NEW read \in DOMAIN Reads, Fetches(read, section)
    PROVE  /\ ChangeFine(Change(section, read))
           /\ ChangeFine([Change(section, read) EXCEPT !.reread = "always"])
           /\ ChangeFine(Replace(section, read))
           /\ ChangeFine(Chain(section, read, <<"read", "write">>))
           /\ ChangeFine(Chain(section, read, <<"write", "read", "write">>))
           /\ \A g : ChangeFine([Change(section, read) EXCEPT !.gate = g, !.reread = "always"])
  <1>1. ASSUME NEW c, c.section = section, c.read = read, c.steps \in Seq(Steps),
               Len(c.steps) > 0, c.reread \in {"success", "last", "always"}
        PROVE  ChangeFine(c)
    BY <1>1 DEF ChangeFine, ChangeTyped, Mends, ReadNames
  <1>2. /\ <<"write">> \in Seq(Steps) /\ <<"write", "write">> \in Seq(Steps)
        /\ <<"read", "write">> \in Seq(Steps) /\ <<"write", "read", "write">> \in Seq(Steps)
        /\ Len(<<"write">>) = 1 /\ Len(<<"write", "write">>) = 2
        /\ Len(<<"read", "write">>) = 2 /\ Len(<<"write", "read", "write">>) = 3
    BY DEF Steps
  <1>3. ChangeFine(Change(section, read))
    <2> DEFINE c == Change(section, read)
    <2>1. /\ c.section = section /\ c.read = read /\ c.steps = <<"write">>
          /\ c.reread = "success"
      BY DEF Change
    <2> HIDE DEF c
    <2>2. c.steps \in Seq(Steps) /\ Len(c.steps) > 0
      BY <1>2, <2>1
    <2>3. c.reread \in {"success", "last", "always"}
      BY <2>1
    <2>4. ChangeFine(c)
      BY <1>1, <2>1, <2>2, <2>3
    <2> QED BY <2>4 DEF c
  <1>4. ChangeFine([Change(section, read) EXCEPT !.reread = "always"])
    <2> DEFINE c == [Change(section, read) EXCEPT !.reread = "always"]
    <2>1. /\ c.section = section /\ c.read = read /\ c.steps = <<"write">>
          /\ c.reread = "always"
      BY DEF Change
    <2> HIDE DEF c
    <2>2. c.steps \in Seq(Steps) /\ Len(c.steps) > 0
      BY <1>2, <2>1
    <2>3. c.reread \in {"success", "last", "always"}
      BY <2>1
    <2>4. ChangeFine(c)
      BY <1>1, <2>1, <2>2, <2>3
    <2> QED BY <2>4 DEF c
  <1>5. ChangeFine(Replace(section, read))
    <2> DEFINE c == Replace(section, read)
    <2>1. /\ c.section = section /\ c.read = read /\ c.steps = <<"write", "write">>
          /\ c.reread = "last"
      BY DEF Change, Chain, Replace
    <2> HIDE DEF c
    <2>2. c.steps \in Seq(Steps) /\ Len(c.steps) > 0
      BY <1>2, <2>1
    <2>3. c.reread \in {"success", "last", "always"}
      BY <2>1
    <2>4. ChangeFine(c)
      BY <1>1, <2>1, <2>2, <2>3
    <2> QED BY <2>4 DEF c
  <1>6. ChangeFine(Chain(section, read, <<"read", "write">>))
    <2> DEFINE c == Chain(section, read, <<"read", "write">>)
    <2>1. /\ c.section = section /\ c.read = read /\ c.steps = <<"read", "write">>
          /\ c.reread = "success"
      BY DEF Change, Chain
    <2> HIDE DEF c
    <2>2. c.steps \in Seq(Steps) /\ Len(c.steps) > 0
      BY <1>2, <2>1
    <2>3. c.reread \in {"success", "last", "always"}
      BY <2>1
    <2>4. ChangeFine(c)
      BY <1>1, <2>1, <2>2, <2>3
    <2> QED BY <2>4 DEF c
  <1>7. ChangeFine(Chain(section, read, <<"write", "read", "write">>))
    <2> DEFINE c == Chain(section, read, <<"write", "read", "write">>)
    <2>1. /\ c.section = section /\ c.read = read /\ c.steps = <<"write", "read", "write">>
          /\ c.reread = "success"
      BY DEF Change, Chain
    <2> HIDE DEF c
    <2>2. c.steps \in Seq(Steps) /\ Len(c.steps) > 0
      BY <1>2, <2>1
    <2>3. c.reread \in {"success", "last", "always"}
      BY <2>1
    <2>4. ChangeFine(c)
      BY <1>1, <2>1, <2>2, <2>3
    <2> QED BY <2>4 DEF c
  <1>8. \A g : ChangeFine([Change(section, read) EXCEPT !.gate = g, !.reread = "always"])
    <2> TAKE g
    <2> DEFINE c == [Change(section, read) EXCEPT !.gate = g, !.reread = "always"]
    <2>1. /\ c.section = section /\ c.read = read /\ c.steps = <<"write">>
          /\ c.reread = "always"
      BY DEF Change
    <2> HIDE DEF c
    <2>2. c.steps \in Seq(Steps) /\ Len(c.steps) > 0
      BY <1>2, <2>1
    <2>3. c.reread \in {"success", "last", "always"}
      BY <2>1
    <2>4. ChangeFine(c)
      BY <1>1, <2>1, <2>2, <2>3
    <2> QED BY <2>4 DEF c
  <1> QED BY <1>3, <1>4, <1>5, <1>6, <1>7, <1>8

LEMMA ChangesAre ==
    /\ DOMAIN Changes =
         {"setKvmOptInPolicyEnabled", "setKvmSettings", "setKvmServiceEnabled",
          "syncDeviceTime", "addWiFiPskProfile", "updateWiFiPskProfile",
          "deleteWiFiProfile", "deleteAllITWiFiProfiles", "deleteAllUserWiFiProfiles",
          "setWifiPortEnabled", "setWifiSyncSettings", "setWiredEnterpriseProfile",
          "addAgentPresenceWatchdog", "deleteAgentPresenceWatchdog",
          "replaceAgentPresenceWatchdog", "addWatchdogAction", "deleteWatchdogAction",
          "subscribeToEventFilter", "unsubscribeFromEventFilter", "addWakeAlarm",
          "deleteWakeAlarm", "replaceWakeAlarm", "deleteSystemDefensePolicy",
          "deleteSystemDefenseHdrFilter", "deleteSystemDefenseIpFilter",
          "bindSystemDefensePolicy", "unbindSystemDefensePolicy",
          "addSystemDefensePolicyAction", "addSystemDefenseIpFilter",
          "addSystemDefenseHdrFilter", "addCertificateFromPem", "deleteDeviceCertificate",
          "deleteDeviceKeyPair", "setTlsSettingsForInstance", "generateKeyPairAndCsr",
          "installSignedCertAndBindTls", "addHttpProxy", "deleteHttpProxy",
          "setEnvironmentDetection", "setUserInitiatedConnectionState", "addMpServer",
          "updateMpServer", "removeMpServer", "addCiraPolicyRule", "removeCiraPolicyRule",
          "addUserAccount", "updateUserAccount", "removeUserAccount", "setAccountEnabled",
          "setAdminPassword", "setPowerScheme", "bootToBios", "bootToPxe",
          "bootToIderCdrom", "bootToIderFloppy", "osWakeFromSleep", "osPutToSleep",
          "bootToSecureErase", "bootToPlatformErase", "bootToHttpsBootUrl",
          "changePowerState", "bootToWinRE", "bootToLocalPBA", "bootToOcrHttpsUrl",
          "wsmanBrowse", "refreshSystemDefenseStats"}
    /\ Changes["setKvmOptInPolicyEnabled"] = setKvmOptInPolicyEnabled
    /\ Changes["setKvmSettings"] = setKvmSettings
    /\ Changes["setKvmServiceEnabled"] = setKvmServiceEnabled
    /\ Changes["syncDeviceTime"] = syncDeviceTime
    /\ Changes["addWiFiPskProfile"] = addWiFiPskProfile
    /\ Changes["updateWiFiPskProfile"] = updateWiFiPskProfile
    /\ Changes["deleteWiFiProfile"] = deleteWiFiProfile
    /\ Changes["deleteAllITWiFiProfiles"] = deleteAllITWiFiProfiles
    /\ Changes["deleteAllUserWiFiProfiles"] = deleteAllUserWiFiProfiles
    /\ Changes["setWifiPortEnabled"] = setWifiPortEnabled
    /\ Changes["setWifiSyncSettings"] = setWifiSyncSettings
    /\ Changes["setWiredEnterpriseProfile"] = setWiredEnterpriseProfile
    /\ Changes["addAgentPresenceWatchdog"] = addAgentPresenceWatchdog
    /\ Changes["deleteAgentPresenceWatchdog"] = deleteAgentPresenceWatchdog
    /\ Changes["replaceAgentPresenceWatchdog"] = replaceAgentPresenceWatchdog
    /\ Changes["addWatchdogAction"] = addWatchdogAction
    /\ Changes["deleteWatchdogAction"] = deleteWatchdogAction
    /\ Changes["subscribeToEventFilter"] = subscribeToEventFilter
    /\ Changes["unsubscribeFromEventFilter"] = unsubscribeFromEventFilter
    /\ Changes["addWakeAlarm"] = addWakeAlarm
    /\ Changes["deleteWakeAlarm"] = deleteWakeAlarm
    /\ Changes["replaceWakeAlarm"] = replaceWakeAlarm
    /\ Changes["deleteSystemDefensePolicy"] = deleteSystemDefensePolicy
    /\ Changes["deleteSystemDefenseHdrFilter"] = deleteSystemDefenseHdrFilter
    /\ Changes["deleteSystemDefenseIpFilter"] = deleteSystemDefenseIpFilter
    /\ Changes["bindSystemDefensePolicy"] = bindSystemDefensePolicy
    /\ Changes["unbindSystemDefensePolicy"] = unbindSystemDefensePolicy
    /\ Changes["addSystemDefensePolicyAction"] = addSystemDefensePolicyAction
    /\ Changes["addSystemDefenseIpFilter"] = addSystemDefenseIpFilter
    /\ Changes["addSystemDefenseHdrFilter"] = addSystemDefenseHdrFilter
    /\ Changes["addCertificateFromPem"] = addCertificateFromPem
    /\ Changes["deleteDeviceCertificate"] = deleteDeviceCertificate
    /\ Changes["deleteDeviceKeyPair"] = deleteDeviceKeyPair
    /\ Changes["setTlsSettingsForInstance"] = setTlsSettingsForInstance
    /\ Changes["generateKeyPairAndCsr"] = generateKeyPairAndCsr
    /\ Changes["installSignedCertAndBindTls"] = installSignedCertAndBindTls
    /\ Changes["addHttpProxy"] = addHttpProxy
    /\ Changes["deleteHttpProxy"] = deleteHttpProxy
    /\ Changes["setEnvironmentDetection"] = setEnvironmentDetection
    /\ Changes["setUserInitiatedConnectionState"] = setUserInitiatedConnectionState
    /\ Changes["addMpServer"] = addMpServer
    /\ Changes["updateMpServer"] = updateMpServer
    /\ Changes["removeMpServer"] = removeMpServer
    /\ Changes["addCiraPolicyRule"] = addCiraPolicyRule
    /\ Changes["removeCiraPolicyRule"] = removeCiraPolicyRule
    /\ Changes["addUserAccount"] = addUserAccount
    /\ Changes["updateUserAccount"] = updateUserAccount
    /\ Changes["removeUserAccount"] = removeUserAccount
    /\ Changes["setAccountEnabled"] = setAccountEnabled
    /\ Changes["setAdminPassword"] = setAdminPassword
    /\ Changes["setPowerScheme"] = setPowerScheme
    /\ Changes["bootToBios"] = bootToBios
    /\ Changes["bootToPxe"] = bootToPxe
    /\ Changes["bootToIderCdrom"] = bootToIderCdrom
    /\ Changes["bootToIderFloppy"] = bootToIderFloppy
    /\ Changes["osWakeFromSleep"] = osWakeFromSleep
    /\ Changes["osPutToSleep"] = osPutToSleep
    /\ Changes["bootToSecureErase"] = bootToSecureErase
    /\ Changes["bootToPlatformErase"] = bootToPlatformErase
    /\ Changes["bootToHttpsBootUrl"] = bootToHttpsBootUrl
    /\ Changes["changePowerState"] = changePowerState
    /\ Changes["bootToWinRE"] = bootToWinRE
    /\ Changes["bootToLocalPBA"] = bootToLocalPBA
    /\ Changes["bootToOcrHttpsUrl"] = bootToOcrHttpsUrl
    /\ Changes["wsmanBrowse"] = wsmanBrowse
    /\ Changes["refreshSystemDefenseStats"] = refreshSystemDefenseStats
  <1>0. DOMAIN Changes =
         {"setKvmOptInPolicyEnabled", "setKvmSettings", "setKvmServiceEnabled",
          "syncDeviceTime", "addWiFiPskProfile", "updateWiFiPskProfile",
          "deleteWiFiProfile", "deleteAllITWiFiProfiles", "deleteAllUserWiFiProfiles",
          "setWifiPortEnabled", "setWifiSyncSettings", "setWiredEnterpriseProfile",
          "addAgentPresenceWatchdog", "deleteAgentPresenceWatchdog",
          "replaceAgentPresenceWatchdog", "addWatchdogAction", "deleteWatchdogAction",
          "subscribeToEventFilter", "unsubscribeFromEventFilter", "addWakeAlarm",
          "deleteWakeAlarm", "replaceWakeAlarm", "deleteSystemDefensePolicy",
          "deleteSystemDefenseHdrFilter", "deleteSystemDefenseIpFilter",
          "bindSystemDefensePolicy", "unbindSystemDefensePolicy",
          "addSystemDefensePolicyAction", "addSystemDefenseIpFilter",
          "addSystemDefenseHdrFilter", "addCertificateFromPem", "deleteDeviceCertificate",
          "deleteDeviceKeyPair", "setTlsSettingsForInstance", "generateKeyPairAndCsr",
          "installSignedCertAndBindTls", "addHttpProxy", "deleteHttpProxy",
          "setEnvironmentDetection", "setUserInitiatedConnectionState", "addMpServer",
          "updateMpServer", "removeMpServer", "addCiraPolicyRule", "removeCiraPolicyRule",
          "addUserAccount", "updateUserAccount", "removeUserAccount", "setAccountEnabled",
          "setAdminPassword", "setPowerScheme", "bootToBios", "bootToPxe",
          "bootToIderCdrom", "bootToIderFloppy", "osWakeFromSleep", "osPutToSleep",
          "bootToSecureErase", "bootToPlatformErase", "bootToHttpsBootUrl",
          "changePowerState", "bootToWinRE", "bootToLocalPBA", "bootToOcrHttpsUrl",
          "wsmanBrowse", "refreshSystemDefenseStats"}
    BY DEF Changes
  <1>1. /\ Changes["setKvmOptInPolicyEnabled"] = setKvmOptInPolicyEnabled
        /\ Changes["setKvmSettings"] = setKvmSettings
        /\ Changes["setKvmServiceEnabled"] = setKvmServiceEnabled
        /\ Changes["syncDeviceTime"] = syncDeviceTime
        /\ Changes["addWiFiPskProfile"] = addWiFiPskProfile
        /\ Changes["updateWiFiPskProfile"] = updateWiFiPskProfile
        /\ Changes["deleteWiFiProfile"] = deleteWiFiProfile
        /\ Changes["deleteAllITWiFiProfiles"] = deleteAllITWiFiProfiles
        /\ Changes["deleteAllUserWiFiProfiles"] = deleteAllUserWiFiProfiles
        /\ Changes["setWifiPortEnabled"] = setWifiPortEnabled
        /\ Changes["setWifiSyncSettings"] = setWifiSyncSettings
        /\ Changes["setWiredEnterpriseProfile"] = setWiredEnterpriseProfile
        /\ Changes["addAgentPresenceWatchdog"] = addAgentPresenceWatchdog
        /\ Changes["deleteAgentPresenceWatchdog"] = deleteAgentPresenceWatchdog
        /\ Changes["replaceAgentPresenceWatchdog"] = replaceAgentPresenceWatchdog
        /\ Changes["addWatchdogAction"] = addWatchdogAction
        /\ Changes["deleteWatchdogAction"] = deleteWatchdogAction
    BY DEF Changes
  <1>2. /\ Changes["subscribeToEventFilter"] = subscribeToEventFilter
        /\ Changes["unsubscribeFromEventFilter"] = unsubscribeFromEventFilter
        /\ Changes["addWakeAlarm"] = addWakeAlarm
        /\ Changes["deleteWakeAlarm"] = deleteWakeAlarm
        /\ Changes["replaceWakeAlarm"] = replaceWakeAlarm
        /\ Changes["deleteSystemDefensePolicy"] = deleteSystemDefensePolicy
        /\ Changes["deleteSystemDefenseHdrFilter"] = deleteSystemDefenseHdrFilter
        /\ Changes["deleteSystemDefenseIpFilter"] = deleteSystemDefenseIpFilter
        /\ Changes["bindSystemDefensePolicy"] = bindSystemDefensePolicy
        /\ Changes["unbindSystemDefensePolicy"] = unbindSystemDefensePolicy
        /\ Changes["addSystemDefensePolicyAction"] = addSystemDefensePolicyAction
        /\ Changes["addSystemDefenseIpFilter"] = addSystemDefenseIpFilter
        /\ Changes["addSystemDefenseHdrFilter"] = addSystemDefenseHdrFilter
        /\ Changes["addCertificateFromPem"] = addCertificateFromPem
        /\ Changes["deleteDeviceCertificate"] = deleteDeviceCertificate
        /\ Changes["deleteDeviceKeyPair"] = deleteDeviceKeyPair
        /\ Changes["setTlsSettingsForInstance"] = setTlsSettingsForInstance
    BY DEF Changes
  <1>3. /\ Changes["generateKeyPairAndCsr"] = generateKeyPairAndCsr
        /\ Changes["installSignedCertAndBindTls"] = installSignedCertAndBindTls
        /\ Changes["addHttpProxy"] = addHttpProxy
        /\ Changes["deleteHttpProxy"] = deleteHttpProxy
        /\ Changes["setEnvironmentDetection"] = setEnvironmentDetection
        /\ Changes["setUserInitiatedConnectionState"] = setUserInitiatedConnectionState
        /\ Changes["addMpServer"] = addMpServer
        /\ Changes["updateMpServer"] = updateMpServer
        /\ Changes["removeMpServer"] = removeMpServer
        /\ Changes["addCiraPolicyRule"] = addCiraPolicyRule
        /\ Changes["removeCiraPolicyRule"] = removeCiraPolicyRule
        /\ Changes["addUserAccount"] = addUserAccount
        /\ Changes["updateUserAccount"] = updateUserAccount
        /\ Changes["removeUserAccount"] = removeUserAccount
        /\ Changes["setAccountEnabled"] = setAccountEnabled
        /\ Changes["setAdminPassword"] = setAdminPassword
        /\ Changes["setPowerScheme"] = setPowerScheme
    BY DEF Changes
  <1>4. /\ Changes["bootToBios"] = bootToBios
        /\ Changes["bootToPxe"] = bootToPxe
        /\ Changes["bootToIderCdrom"] = bootToIderCdrom
        /\ Changes["bootToIderFloppy"] = bootToIderFloppy
        /\ Changes["osWakeFromSleep"] = osWakeFromSleep
        /\ Changes["osPutToSleep"] = osPutToSleep
        /\ Changes["bootToSecureErase"] = bootToSecureErase
        /\ Changes["bootToPlatformErase"] = bootToPlatformErase
        /\ Changes["bootToHttpsBootUrl"] = bootToHttpsBootUrl
        /\ Changes["changePowerState"] = changePowerState
        /\ Changes["bootToWinRE"] = bootToWinRE
        /\ Changes["bootToLocalPBA"] = bootToLocalPBA
        /\ Changes["bootToOcrHttpsUrl"] = bootToOcrHttpsUrl
        /\ Changes["wsmanBrowse"] = wsmanBrowse
        /\ Changes["refreshSystemDefenseStats"] = refreshSystemDefenseStats
    BY DEF Changes
  <1> QED BY <1>0, <1>1, <1>2, <1>3, <1>4

LEMMA SettingsFine ==
    /\ ChangeFine(setKvmOptInPolicyEnabled)
    /\ ChangeFine(setKvmSettings)
    /\ ChangeFine(setKvmServiceEnabled)
    /\ ChangeFine(setPowerScheme)
  BY ChangeShape, FetchesOne, ReadsAre
     DEF setKvmOptInPolicyEnabled, setKvmSettings, setKvmServiceEnabled, setPowerScheme

LEMMA WirelessFine ==
    /\ ChangeFine(addWiFiPskProfile)
    /\ ChangeFine(updateWiFiPskProfile)
    /\ ChangeFine(deleteWiFiProfile)
    /\ ChangeFine(deleteAllITWiFiProfiles)
    /\ ChangeFine(deleteAllUserWiFiProfiles)
    /\ ChangeFine(setWifiPortEnabled)
    /\ ChangeFine(setWifiSyncSettings)
    /\ ChangeFine(setWiredEnterpriseProfile)
  BY ChangeShape, FetchesOne, ReadsAre
     DEF addWiFiPskProfile, updateWiFiPskProfile, deleteWiFiProfile,
         deleteAllITWiFiProfiles, deleteAllUserWiFiProfiles, setWifiPortEnabled,
         setWifiSyncSettings, setWiredEnterpriseProfile

LEMMA AgentsFine ==
    /\ ChangeFine(addAgentPresenceWatchdog)
    /\ ChangeFine(deleteAgentPresenceWatchdog)
    /\ ChangeFine(replaceAgentPresenceWatchdog)
    /\ ChangeFine(addWatchdogAction)
    /\ ChangeFine(deleteWatchdogAction)
  BY ChangeShape, FetchesOne, ReadsAre
     DEF addAgentPresenceWatchdog, deleteAgentPresenceWatchdog,
         replaceAgentPresenceWatchdog, addWatchdogAction, deleteWatchdogAction

LEMMA EventsFine ==
    /\ ChangeFine(subscribeToEventFilter)
    /\ ChangeFine(unsubscribeFromEventFilter)
    /\ ChangeFine(addWakeAlarm)
    /\ ChangeFine(deleteWakeAlarm)
    /\ ChangeFine(replaceWakeAlarm)
  BY ChangeShape, FetchesOne, ReadsAre
     DEF subscribeToEventFilter, unsubscribeFromEventFilter, addWakeAlarm, deleteWakeAlarm,
         replaceWakeAlarm

LEMMA DefenseFine ==
    /\ ChangeFine(deleteSystemDefensePolicy)
    /\ ChangeFine(deleteSystemDefenseHdrFilter)
    /\ ChangeFine(deleteSystemDefenseIpFilter)
    /\ ChangeFine(bindSystemDefensePolicy)
    /\ ChangeFine(unbindSystemDefensePolicy)
    /\ ChangeFine(addSystemDefensePolicyAction)
    /\ ChangeFine(addSystemDefenseIpFilter)
    /\ ChangeFine(addSystemDefenseHdrFilter)
  BY ChangeShape, FetchesOne, ReadsAre
     DEF deleteSystemDefensePolicy, deleteSystemDefenseHdrFilter,
         deleteSystemDefenseIpFilter, bindSystemDefensePolicy, unbindSystemDefensePolicy,
         addSystemDefensePolicyAction, addSystemDefenseIpFilter, addSystemDefenseHdrFilter

LEMMA CertsFine ==
    /\ ChangeFine(addCertificateFromPem)
    /\ ChangeFine(deleteDeviceCertificate)
    /\ ChangeFine(deleteDeviceKeyPair)
    /\ ChangeFine(setTlsSettingsForInstance)
    /\ ChangeFine(installSignedCertAndBindTls)
  BY ChangeShape, FetchesOne, ReadsAre
     DEF addCertificateFromPem, deleteDeviceCertificate, deleteDeviceKeyPair,
         setTlsSettingsForInstance, installSignedCertAndBindTls

LEMMA RemoteFine ==
    /\ ChangeFine(addHttpProxy)
    /\ ChangeFine(deleteHttpProxy)
    /\ ChangeFine(setEnvironmentDetection)
    /\ ChangeFine(setUserInitiatedConnectionState)
    /\ ChangeFine(addMpServer)
    /\ ChangeFine(updateMpServer)
    /\ ChangeFine(removeMpServer)
    /\ ChangeFine(addCiraPolicyRule)
    /\ ChangeFine(removeCiraPolicyRule)
  BY ChangeShape, FetchesOne, ReadsAre
     DEF addHttpProxy, deleteHttpProxy, setEnvironmentDetection,
         setUserInitiatedConnectionState, addMpServer, updateMpServer, removeMpServer,
         addCiraPolicyRule, removeCiraPolicyRule

LEMMA AccountsFine ==
    /\ ChangeFine(addUserAccount)
    /\ ChangeFine(updateUserAccount)
    /\ ChangeFine(removeUserAccount)
    /\ ChangeFine(setAccountEnabled)
    /\ ChangeFine(setAdminPassword)
  BY ChangeShape, FetchesOne, ReadsAre
     DEF addUserAccount, updateUserAccount, removeUserAccount, setAccountEnabled,
         setAdminPassword

LEMMA PowerFine ==
    /\ ChangeFine(bootToBios)
    /\ ChangeFine(bootToPxe)
    /\ ChangeFine(bootToIderCdrom)
    /\ ChangeFine(bootToIderFloppy)
    /\ ChangeFine(osWakeFromSleep)
    /\ ChangeFine(osPutToSleep)
    /\ ChangeFine(bootToSecureErase)
    /\ ChangeFine(bootToPlatformErase)
    /\ ChangeFine(bootToHttpsBootUrl)
    /\ ChangeFine(changePowerState)
    /\ ChangeFine(bootToWinRE)
    /\ ChangeFine(bootToLocalPBA)
    /\ ChangeFine(bootToOcrHttpsUrl)
  BY ChangeShape, FetchesOne, ReadsAre
     DEF bootToBios, bootToPxe, bootToIderCdrom, bootToIderFloppy, osWakeFromSleep,
         osPutToSleep, bootToSecureErase, bootToPlatformErase, bootToHttpsBootUrl,
         changePowerState, bootToWinRE, bootToLocalPBA, bootToOcrHttpsUrl

LEMMA OthersFine ==
    /\ ChangeFine(syncDeviceTime) /\ ChangeFine(wsmanBrowse)
    /\ ChangeFine(refreshSystemDefenseStats) /\ ChangeTyped(generateKeyPairAndCsr)
  <1>1. /\ <<"read", "write", "show">> \in Seq(Steps) /\ Len(<<"read", "write", "show">>) = 3
        /\ <<"show">> \in Seq(Steps) /\ Len(<<"show">>) = 1
        /\ <<"read">> \in Seq(Steps) /\ Len(<<"read">>) = 1
        /\ <<"write", "read", "read">> \in Seq(Steps) /\ Len(<<"write", "read", "read">>) = 3
    BY DEF Steps
  <1>2. /\ syncDeviceTime.steps = <<"read", "write", "show">> /\ syncDeviceTime.read = "none"
        /\ syncDeviceTime.reread = "never"
    BY DEF syncDeviceTime, Chain, Change
  <1>3. /\ wsmanBrowse.steps = <<"show">> /\ wsmanBrowse.read = "none"
    BY DEF wsmanBrowse, Chain, Change
  <1>4. /\ refreshSystemDefenseStats.steps = <<"read">>
        /\ refreshSystemDefenseStats.read = "none"
    BY DEF refreshSystemDefenseStats, Chain, Change
  <1>5. /\ generateKeyPairAndCsr.steps = <<"write", "read", "read">>
        /\ generateKeyPairAndCsr.read = "none"
    BY DEF generateKeyPairAndCsr, Chain, Change
  <1>6. ChangeTyped(syncDeviceTime) /\ Mends(syncDeviceTime)
    BY <1>1, <1>2 DEF ChangeTyped, Mends, ReadNames
  <1>7. ChangeTyped(wsmanBrowse) /\ Mends(wsmanBrowse)
    BY <1>1, <1>3 DEF ChangeTyped, Mends, ReadNames
  <1>8. ChangeTyped(refreshSystemDefenseStats) /\ Mends(refreshSystemDefenseStats)
    BY <1>1, <1>4 DEF ChangeTyped, Mends, ReadNames
  <1>9. ChangeTyped(generateKeyPairAndCsr)
    BY <1>1, <1>5 DEF ChangeTyped, ReadNames
  <1> QED BY <1>6, <1>7, <1>8, <1>9 DEF ChangeFine

\* Every change but one shows again what it wrote; and no change has the name of a read.
LEMMA ChangesFine ==
    /\ \A w \in ChangeOps : ChangeTyped(Changes[w])
    /\ \A w \in ChangeOps \ {"generateKeyPairAndCsr"} : ChangeFine(Changes[w])
    /\ \A w \in ChangeOps :
          w \notin {"fetch", "status", "startOptIn", "sendOptInCode", "cancelOptIn"}
  <1>1. \A w \in ChangeOps \ {"generateKeyPairAndCsr"} : ChangeFine(Changes[w])
    BY ChangesAre, OthersFine, SettingsFine, WirelessFine, AgentsFine, EventsFine, DefenseFine, CertsFine, RemoteFine, AccountsFine, PowerFine
       DEF ChangeOps
  <1>2. \A w \in ChangeOps : ChangeTyped(Changes[w])
    BY <1>1, ChangesAre, OthersFine DEF ChangeFine
  <1>3. \A w \in ChangeOps :
          w \notin {"fetch", "status", "startOptIn", "sendOptInCode", "cancelOptIn"}
    BY ChangesAre DEF ChangeOps
  <1> QED BY <1>1, <1>2, <1>3

-----------------------------------------------------------------------------
(***************************************************************************)
(* Requests.                                                               *)
(***************************************************************************)
\* m_optInStatusInFlight stands for exactly one request, which reads this section.
StatusFits(a) ==
    /\ \A i \in 1..Len(a.calls) :
          a.calls[i].op = "status" => a.statusBusy /\ a.calls[i].section = "optIn"
    /\ a.statusBusy => \E i \in 1..Len(a.calls) : a.calls[i].op = "status"
    /\ \A i, j \in 1..Len(a.calls) :
          a.calls[i].op = "status" /\ a.calls[j].op = "status" => i = j

AppOk(a) == a \in AppType /\ StatusFits(a)

\* A read or a request of the consent round that has just been sent.
Fresh(c) ==
    /\ c.op \notin ChangeOps /\ ~c.got /\ ~c.old /\ c.seen = 0
    /\ c.op # "fetch" => c.section = "optIn"

\* b has the requests of a and some that have just been sent.
Grown(a, b) ==
    /\ Len(a.calls) <= Len(b.calls)
    /\ \A i \in 1..Len(a.calls) : b.calls[i] = a.calls[i]
    /\ \A i \in 1..Len(b.calls) : i > Len(a.calls) => Fresh(b.calls[i])

\* A read of section s, or a change that has written it and will be followed by one.
Shower(c, s) ==
    /\ c.section = s
    /\ \/ c.op \in {"fetch", "status"}
       \/ /\ Performed(c) /\ Changes[c.op].reread \in {"success", "last", "always"}
          /\ Fetches(Changes[c.op].read, s)
       \/ /\ Performed(c) /\ Changes[c.op].reread = "never"
          /\ Changes[c.op].steps[Len(Changes[c.op].steps)] = "show"

\* Section s will be shown: by a request, or by a read that waits for the tunnel.
Fixes(a, s) ==
    \/ \E i \in 1..Len(a.calls) : Shower(a.calls[i], s)
    \/ \E r \in DOMAIN Reads : Reads[r].bit \in a.pending /\ Fetches(r, s)

LEMMA Shape ==
    ASSUME NEW a \in AppType
    PROVE  /\ a.calls \in Seq(Request) /\ Len(a.calls) \in Nat /\ a.pending \in SUBSET Bits
           /\ DOMAIN a.calls = 1..Len(a.calls) /\ \A i \in 1..Len(a.calls) : a.calls[i] \in Request
           /\ a.statusBusy \in BOOLEAN /\ a.connecting \in BOOLEAN
  BY DEF AppType

LEMMA GrownTwice ==
    ASSUME NEW a \in AppType, NEW b \in AppType, NEW c \in AppType, Grown(a, b), Grown(b, c)
    PROVE  Grown(a, c)
  <1>1. Len(a.calls) \in Nat /\ Len(b.calls) \in Nat /\ Len(c.calls) \in Nat
    BY Shape
  <1> QED BY <1>1 DEF Grown

LEMMA GrownFixes ==
    ASSUME NEW a \in AppType, NEW b \in AppType, Grown(a, b), a.pending \subseteq b.pending,
           NEW s, Fixes(a, s)
    PROVE  Fixes(b, s)
  <1>1. Len(a.calls) \in Nat /\ Len(b.calls) \in Nat
    BY Shape
  <1>2. ASSUME NEW i \in 1..Len(a.calls), Shower(a.calls[i], s)
        PROVE  Fixes(b, s)
    <2>1. i \in 1..Len(b.calls) /\ b.calls[i] = a.calls[i]
      BY <1>1 DEF Grown
    <2> QED BY <1>2, <2>1 DEF Fixes
  <1> QED BY <1>2 DEF Fixes

LEMMA RequestMade ==
    ASSUME NEW a, NEW op \in Ops, NEW section \in Sections, NEW step \in Nat
    PROVE  LET c == NewRequest(a, op, section, step)
           IN  /\ c \in Request /\ c.op = op /\ c.section = section /\ c.step = step
               /\ ~c.got /\ ~c.old /\ c.seen = 0
  <1> DEFINE p == (a.ssh = "off")
             q == (a.ssh \in {"off", "connected"} \/ Live(a) # {})
  <1>1. p \in BOOLEAN /\ q \in BOOLEAN
    OBVIOUS
  <1>2. NewRequest(a, op, section, step) =
            [op |-> op, section |-> section, step |-> step, got |-> FALSE, old |-> FALSE,
             seen |-> 0, direct |-> p, heard |-> q]
    BY DEF NewRequest
  <1> HIDE DEF p, q
  <1>3. 0 \in NotStarted..InSession
    BY DEF NotStarted, InSession
  <1> QED BY <1>1, <1>2, <1>3 DEF Request

\* A request goes to the end of the list.
LEMMA Sent ==
    ASSUME NEW a \in AppType, NEW op \in Ops, NEW section \in Sections, NEW step \in Nat
    PROVE  LET b == Send(a, op, section, step)
               n == Len(a.calls)
           IN  /\ b \in AppType /\ Len(b.calls) = n + 1
               /\ \A i \in 1..n : b.calls[i] = a.calls[i]
               /\ b.calls[n + 1] = NewRequest(a, op, section, step)
               /\ b.pending = a.pending /\ b.statusBusy = a.statusBusy
               /\ b.connecting = a.connecting
  <1> DEFINE c == NewRequest(a, op, section, step)
  <1>1. c \in Request
    BY RequestMade
  <1>2. Send(a, op, section, step) = [a EXCEPT !.calls = Append(@, c)]
    BY DEF Send
  <1> HIDE DEF c
  <1>3. Append(a.calls, c) \in Seq(Request) /\ Len(Append(a.calls, c)) = Len(a.calls) + 1
        /\ Append(a.calls, c)[Len(a.calls) + 1] = c
        /\ \A i \in 1..Len(a.calls) : Append(a.calls, c)[i] = a.calls[i]
    BY <1>1, Shape
  <1> QED BY <1>2, <1>3 DEF AppType, c

\* Several requests go there in their order.
LEMMA SentAll ==
    ASSUME NEW a \in AppType, NEW t \in Seq(Request), \A i \in 1..Len(t) : Fresh(t[i])
    PROVE  LET b == [a EXCEPT !.calls = @ \o t]
           IN  /\ b \in AppType /\ Grown(a, b) /\ Len(b.calls) = Len(a.calls) + Len(t)
               /\ \A i \in 1..Len(t) : b.calls[Len(a.calls) + i] = t[i]
               /\ b.pending = a.pending /\ b.statusBusy = a.statusBusy
               /\ b.connecting = a.connecting
  <1> DEFINE n == Len(a.calls)
             q == a.calls \o t
             b == [a EXCEPT !.calls = @ \o t]
  <1>1. a.calls \in Seq(Request) /\ n \in Nat /\ Len(t) \in Nat
    BY Shape
  <1>2. /\ q \in Seq(Request) /\ Len(q) = n + Len(t)
        /\ \A i \in 1..n : q[i] = a.calls[i]
        /\ \A i \in 1..Len(t) : q[n + i] = t[i]
    BY <1>1
  <1>3. \A i \in 1..Len(q) : i > n => i - n \in 1..Len(t) /\ n + (i - n) = i
    BY <1>1, <1>2
  <1>4. \A i \in 1..Len(q) : i > n => Fresh(q[i])
    <2> HIDE DEF q, n
    <2> SUFFICES ASSUME NEW i \in 1..Len(q), i > n
                 PROVE  Fresh(q[i])
      OBVIOUS
    <2>1. i - n \in 1..Len(t) /\ q[n + (i - n)] = t[i - n] /\ n + (i - n) = i
      BY <1>2, <1>3
    <2> QED BY <2>1
  <1>5. b.calls = q /\ b.pending = a.pending /\ b.statusBusy = a.statusBusy
        /\ b.connecting = a.connecting
    BY DEF AppType
  <1>6. b \in AppType
    BY <1>2 DEF AppType
  <1> HIDE DEF q, b
  <1>7. Grown(a, b)
    <2>1. n <= Len(q)
      BY <1>1, <1>2
    <2>2. \A i \in 1..n : q[i] = a.calls[i]
      BY <1>2
    <2> HIDE DEF n
    <2>3. n <= Len(b.calls) /\ (\A i \in 1..n : b.calls[i] = a.calls[i])
          /\ \A i \in 1..Len(b.calls) : i > n => Fresh(b.calls[i])
      BY <1>4, <1>5, <2>1, <2>2
    <2> QED BY <2>3 DEF Grown, n
  <1> QED BY <1>2, <1>5, <1>6, <1>7 DEF b

\* Requests that are not status reads leave the flag right.
LEMMA StatusGrows ==
    ASSUME NEW a \in AppType, NEW b \in AppType, StatusFits(a), Grown(a, b),
           b.statusBusy = a.statusBusy,
           \A i \in 1..Len(b.calls) : i > Len(a.calls) => b.calls[i].op # "status"
    PROVE  StatusFits(b)
  <1>1. Len(a.calls) \in Nat /\ Len(b.calls) \in Nat
    BY Shape
  <1>2. \A i \in 1..Len(b.calls) : b.calls[i].op = "status" =>
            i \in 1..Len(a.calls) /\ b.calls[i] = a.calls[i]
    BY <1>1 DEF Grown
  <1>3. \A i \in 1..Len(a.calls) : i \in 1..Len(b.calls) /\ b.calls[i] = a.calls[i]
    BY <1>1 DEF Grown
  <1> QED BY <1>2, <1>3 DEF StatusFits

LEMMA OptInListed == "optIn" \in Sections /\ refreshOptInStatus.bit \in Bits
  <1> DEFINE r == "refreshOptInStatus"
             q == Reads[r].sections
  <1>1. r \in DOMAIN Reads /\ q = <<"optIn">> /\ refreshOptInStatus = Reads[r]
    BY ReadsAre, FetchFine DEF refreshOptInStatus
  <1>2. 1 \in DOMAIN <<"optIn">> /\ <<"optIn">>[1] = "optIn"
    OBVIOUS
  <1> HIDE DEF r
  <1> QED BY <1>1, <1>2 DEF Sections, Bits

LEMMA Deferred ==
    ASSUME NEW a, AppOk(a), NEW bit \in Bits
    PROVE  LET b == Defer(a, bit)
           IN  /\ AppOk(b) /\ Grown(a, b) /\ b.calls = a.calls /\ b.connecting = a.connecting
               /\ b.pending = a.pending \cup {bit}
  <1>1. LET b == Defer(a, bit)
        IN  /\ b \in AppType /\ b.calls = a.calls /\ b.connecting = a.connecting
            /\ b.statusBusy = a.statusBusy /\ b.pending = a.pending \cup {bit}
    BY DEF AppOk, Defer, AppType
  <1> DEFINE b == Defer(a, bit)
  <1> HIDE DEF b
  <1>2. b \in AppType /\ b.calls = a.calls /\ b.statusBusy = a.statusBusy
    BY <1>1 DEF b
  <1>3. Len(a.calls) \in Nat
    BY Shape DEF AppOk
  <1>4. StatusFits(b)
    BY <1>2 DEF StatusFits, AppOk
  <1>5. Grown(a, b)
    BY <1>2, <1>3 DEF Grown
  <1> QED BY <1>1, <1>2, <1>4, <1>5 DEF AppOk, b

\* A status read: deferred, swallowed by the one under way, or the only one.
LEMMA StatusRefreshed ==
    ASSUME NEW a, AppOk(a)
    PROVE  LET b == StatusRefresh(a)
           IN  /\ AppOk(b) /\ Grown(a, b) /\ a.pending \subseteq b.pending
               /\ b.connecting = a.connecting /\ (~a.connecting => b.pending = a.pending)
               /\ Fixes(b, "optIn")
  <1> DEFINE b == StatusRefresh(a)
  <1>0. a \in AppType /\ StatusFits(a) /\ Len(a.calls) \in Nat
    BY Shape DEF AppOk
  <1>1. CASE a.connecting
    <2>1. b = Defer(a, refreshOptInStatus.bit)
      BY <1>1 DEF StatusRefresh
    <2> HIDE DEF b
    <2>2. /\ AppOk(b) /\ Grown(a, b) /\ b.connecting = a.connecting
          /\ b.pending = a.pending \cup {refreshOptInStatus.bit}
      BY <2>1, Deferred, OptInListed
    <2>3. Fixes(b, "optIn")
      BY <2>2, ReadsAre, FetchesOne DEF Fixes
    <2> QED BY <1>1, <2>2, <2>3 DEF b
  <1>2. CASE ~a.connecting /\ a.statusBusy
    <2>1. b = a
      BY <1>2 DEF StatusRefresh
    <2>2. Grown(a, a)
      BY <1>0 DEF Grown
    <2>3. Fixes(a, "optIn")
      BY <1>0, <1>2 DEF StatusFits, Fixes, Shower
    <2> HIDE DEF b
    <2> QED BY <2>1, <2>2, <2>3 DEF b
  <1>3. CASE ~a.connecting /\ ~a.statusBusy
    <2> DEFINE m == [a EXCEPT !.statusBusy = TRUE, !.resume = "refreshOptInStatus"]
               n == Len(a.calls)
    <2>1. b = Send(m, "status", "optIn", 1)
      BY <1>3 DEF StatusRefresh
    <2>2. m \in AppType /\ m.calls = a.calls /\ m.pending = a.pending /\ m.statusBusy
          /\ m.connecting = a.connecting
      BY <1>0, ReadsAre DEF AppType
    <2>3. "status" \in Ops /\ "status" \notin ChangeOps /\ "status" # "fetch"
      BY ChangesFine DEF Ops
    <2> DEFINE c == NewRequest(m, "status", "optIn", 1)
    <2> HIDE DEF b, m
    <2>4. c.op = "status" /\ c.section = "optIn" /\ Fresh(c)
      BY <2>3, RequestMade, OptInListed DEF Fresh
    <2> HIDE DEF c
    <2>5. /\ b \in AppType /\ Len(b.calls) = n + 1
          /\ \A i \in 1..n : b.calls[i] = a.calls[i]
          /\ b.calls[n + 1] = c
          /\ b.pending = a.pending /\ b.statusBusy = m.statusBusy
          /\ b.connecting = a.connecting
      <3>1. LET x == Send(m, "status", "optIn", 1)
            IN  /\ x \in AppType /\ Len(x.calls) = Len(m.calls) + 1
                /\ \A i \in 1..Len(m.calls) : x.calls[i] = m.calls[i]
                /\ x.calls[Len(m.calls) + 1] = c
                /\ x.pending = m.pending /\ x.statusBusy = m.statusBusy
                /\ x.connecting = m.connecting
        BY <2>2, <2>3, Sent, OptInListed DEF c
      <3> QED BY <2>1, <2>2, <3>1
    <2> HIDE DEF n
    <2>n. n \in Nat
      BY <1>0 DEF n
    <2>6. \A i \in 1..Len(b.calls) : i \in 1..n \/ (i = n + 1 /\ i > n)
      BY <2>5, <2>n
    <2>7. \A i \in 1..n : i \in 1..Len(b.calls) /\ ~(i > n)
      BY <2>5, <2>n
    <2>8. n + 1 \in 1..Len(b.calls) /\ n <= Len(b.calls)
      BY <2>5, <2>n
    <2>9. Grown(a, b)
      <3>1. /\ n <= Len(b.calls)
            /\ \A i \in 1..n : b.calls[i] = a.calls[i]
            /\ \A i \in 1..Len(b.calls) : i > n => Fresh(b.calls[i])
        BY <2>4, <2>5, <2>6, <2>7, <2>8
      <3> QED BY <3>1 DEF Grown, n
    <2>10. \A i \in 1..n : a.calls[i].op # "status"
      BY <1>0, <1>3 DEF StatusFits, n
    <2>11. \A i \in 1..Len(b.calls) : b.calls[i].op = "status" <=> i = n + 1
      BY <2>4, <2>5, <2>6, <2>10
    <2>12. StatusFits(b)
      BY <2>2, <2>4, <2>5, <2>8, <2>11 DEF StatusFits
    <2>13. Fixes(b, "optIn")
      BY <2>4, <2>5, <2>8 DEF Fixes, Shower
    <2> QED BY <2>5, <2>9, <2>12, <2>13 DEF AppOk, b
  <1> QED BY <1>1, <1>2, <1>3

LEMMA SectionsTyped ==
    ASSUME NEW r \in DOMAIN Reads
    PROVE  /\ Len(Reads[r].sections) \in Nat /\ Reads[r].bit \in Bits
           /\ \A i \in 1..Len(Reads[r].sections) : Reads[r].sections[i] \in Sections
  <1>1. PICK S : Reads[r].sections \in Seq(S)
    BY ReadsFine DEF ReadFine
  <1>2. DOMAIN Reads[r].sections = 1..Len(Reads[r].sections) /\ Len(Reads[r].sections) \in Nat
    BY <1>1
  <1> QED BY <1>2 DEF Sections, Bits

\* A plain read is deferred or sent, and its sections will be shown.
LEMMA PlainRefreshed ==
    ASSUME NEW a, AppOk(a), NEW r \in DOMAIN Reads
    PROVE  LET b == PlainRefresh(a, r)
           IN  /\ AppOk(b) /\ Grown(a, b) /\ a.pending \subseteq b.pending
               /\ b.connecting = a.connecting /\ (~a.connecting => b.pending = a.pending)
               /\ \A s : Fetches(r, s) => Fixes(b, s)
  <1> DEFINE b == PlainRefresh(a, r)
  <1>0. a \in AppType /\ StatusFits(a) /\ Len(a.calls) \in Nat
    BY Shape DEF AppOk
  <1>1. CASE a.connecting
    <2>1. b = Defer(a, Reads[r].bit)
      BY <1>1 DEF PlainRefresh
    <2> HIDE DEF b
    <2>2. /\ AppOk(b) /\ Grown(a, b) /\ b.connecting = a.connecting
          /\ b.pending = a.pending \cup {Reads[r].bit}
      BY <2>1, Deferred, SectionsTyped
    <2>3. \A s : Fetches(r, s) => Fixes(b, s)
      BY <2>2 DEF Fixes
    <2> QED BY <1>1, <2>2, <2>3 DEF b
  <1>2. CASE ~a.connecting
    <2> DEFINE m == [a EXCEPT !.resume = r]
               q == Reads[r].sections
               t == [i \in 1..Len(q) |-> NewRequest(m, "fetch", q[i], 1)]
    <2>1. b = [m EXCEPT !.calls = @ \o t]
      BY <1>2 DEF PlainRefresh, FetchAll
    <2>2. m \in AppType /\ m.calls = a.calls /\ m.pending = a.pending
          /\ m.statusBusy = a.statusBusy /\ m.connecting = a.connecting
      BY <1>0 DEF AppType
    <2>3. "fetch" \in Ops /\ "fetch" \notin ChangeOps /\ 1 \in Nat
      BY ChangesFine DEF Ops
    <2>4. Len(q) \in Nat /\ \A i \in 1..Len(q) : q[i] \in Sections
      BY SectionsTyped
    <2> HIDE DEF m, q, b
    <2>5. ASSUME NEW i \in 1..Len(q)
          PROVE  /\ t[i] \in Request /\ Fresh(t[i]) /\ t[i].op = "fetch" /\ t[i].section = q[i]
      <3> DEFINE c == NewRequest(m, "fetch", q[i], 1)
      <3>1. c \in Request /\ Fresh(c) /\ c.op = "fetch" /\ c.section = q[i]
        BY <2>3, <2>4, RequestMade DEF Fresh
      <3>2. t[i] = c
        OBVIOUS
      <3> HIDE DEF c, t
      <3> QED BY <3>1, <3>2
    <2>6. t \in Seq(Request) /\ Len(t) = Len(q)
      <3>1. \A i \in 1..Len(q) : t[i] \in Request
        BY <2>5
      <3> QED BY <2>4, <3>1
    <2> HIDE DEF t
    <2>7. /\ b \in AppType /\ Grown(m, b) /\ Len(b.calls) = Len(m.calls) + Len(t)
          /\ \A i \in 1..Len(t) : b.calls[Len(m.calls) + i] = t[i]
          /\ b.pending = m.pending /\ b.statusBusy = m.statusBusy /\ b.connecting = m.connecting
      <3>1. \A i \in 1..Len(t) : Fresh(t[i])
        BY <2>5, <2>6
      <3> DEFINE x == [m EXCEPT !.calls = @ \o t]
      <3>2. /\ x \in AppType /\ Grown(m, x) /\ Len(x.calls) = Len(m.calls) + Len(t)
            /\ \A i \in 1..Len(t) : x.calls[Len(m.calls) + i] = t[i]
            /\ x.pending = m.pending /\ x.statusBusy = m.statusBusy
            /\ x.connecting = m.connecting
        BY <2>2, <2>6, <3>1, SentAll
      <3> HIDE DEF x
      <3>3. b = x
        BY <2>1 DEF x
      <3> QED BY <3>2, <3>3
    <2>8. Grown(a, b)
      BY <2>2, <2>7 DEF Grown
    <2>9. \A i \in 1..Len(b.calls) : i > Len(a.calls) => b.calls[i].op # "status"
      <3> SUFFICES ASSUME NEW i \in 1..Len(b.calls), i > Len(a.calls)
                   PROVE  b.calls[i].op # "status"
        OBVIOUS
      <3> DEFINE k == i - Len(a.calls)
      <3>1. k \in 1..Len(t) /\ Len(a.calls) + k = i
        BY <1>0, <2>2, <2>4, <2>6, <2>7
      <3> HIDE DEF k
      <3>2. b.calls[i] = t[k]
        BY <2>2, <2>7, <3>1
      <3> QED BY <2>5, <2>6, <3>1, <3>2
    <2>10. StatusFits(b)
      BY <1>0, <2>2, <2>7, <2>8, <2>9, StatusGrows
    <2>11. ASSUME NEW s, Fetches(r, s)
           PROVE  Fixes(b, s)
      <3>1. PICK i \in 1..Len(q) : q[i] = s
        BY <2>11 DEF Fetches, q
      <3> DEFINE k == Len(a.calls) + i
      <3>2. k \in 1..Len(b.calls)
        BY <1>0, <2>2, <2>4, <2>6, <2>7
      <3>3. b.calls[k] = t[i]
        BY <2>2, <2>6, <2>7
      <3> HIDE DEF k
      <3>4. Shower(b.calls[k], s)
        BY <2>5, <3>1, <3>3 DEF Shower, Fresh
      <3> QED BY <3>2, <3>4 DEF Fixes
    <2> QED BY <1>2, <2>2, <2>7, <2>8, <2>10, <2>11 DEF AppOk, b
  <1> QED BY <1>1, <1>2

\* What every refresh has in common.
More(a, b) ==
    /\ AppOk(b) /\ Grown(a, b) /\ a.pending \subseteq b.pending
    /\ b.connecting = a.connecting /\ (~a.connecting => b.pending = a.pending)

\* What read r and the one it ends with fetch.
Covers(r, s) ==
    \/ Fetches(r, s)
    \/ r \in DOMAIN Reads /\ Fetches(Reads[r].also, s)

LEMMA MoreTwice ==
    ASSUME NEW a, NEW b, NEW c, AppOk(a), More(a, b), More(b, c)
    PROVE  More(a, c) /\ \A s : Fixes(b, s) => Fixes(c, s)
  <1>1. Grown(a, c)
    BY GrownTwice DEF More, AppOk
  <1>2. \A s : Fixes(b, s) => Fixes(c, s)
    BY GrownFixes DEF More, AppOk
  <1> QED BY <1>1, <1>2 DEF More

LEMMA MoreNone == ASSUME NEW a, AppOk(a) PROVE More(a, a)
  <1>1. Len(a.calls) \in Nat
    BY Shape DEF AppOk
  <1> QED BY <1>1 DEF More, Grown

LEMMA Refreshed ==
    ASSUME NEW a, AppOk(a), NEW r \in ReadNames
    PROVE  /\ More(a, Refresh(a, r))
           /\ \A s : Covers(r, s) => Fixes(Refresh(a, r), s)
  <1>n. "none" \notin DOMAIN Reads
    BY ReadsAre
  <1>1. CASE r = "none"
    <2>1. Refresh(a, r) = a
      BY <1>1 DEF Refresh
    <2>2. \A s : ~Covers(r, s)
      BY <1>1, <1>n DEF Covers, Fetches
    <2> QED BY <2>1, <2>2, MoreNone
  <1>2. CASE r = "refreshOptInStatus"
    <2>1. Refresh(a, r) = StatusRefresh(a)
      BY <1>2 DEF Refresh
    <2>2. \A s : Covers(r, s) => s = "optIn"
      <3>1. Reads[r].sections = <<"optIn">> /\ Reads[r].also = "none"
        BY <1>2, ReadsAre, FetchFine DEF refreshOptInStatus
      <3>2. \A i \in 1..Len(<<"optIn">>) : <<"optIn">>[i] = "optIn"
        OBVIOUS
      <3> QED BY <1>n, <3>1, <3>2 DEF Covers, Fetches
    <2>3. More(a, StatusRefresh(a)) /\ Fixes(StatusRefresh(a), "optIn")
      BY StatusRefreshed DEF More
    <2> QED BY <2>1, <2>2, <2>3
  <1>3. CASE r \in DOMAIN Reads /\ r # "refreshOptInStatus" /\ r # "none"
    <2> DEFINE b == PlainRefresh(a, r)
               also == Reads[r].also
    <2>1. Refresh(a, r) = IF also = "none" THEN b
                          ELSE IF also = "refreshOptInStatus" THEN StatusRefresh(b)
                          ELSE PlainRefresh(b, also)
      BY <1>3 DEF Refresh
    <2>2. More(a, b) /\ \A s : Fetches(r, s) => Fixes(b, s)
      BY <1>3, PlainRefreshed DEF More
    <2>3. also \in {"none", "refreshOptInStatus", "refreshPowerSchemes"}
      BY <1>3, ReadsFine DEF ReadFine
    <2> HIDE DEF b, also
    <2>a. AppOk(b)
      BY <2>2 DEF More
    <2>4. CASE also = "none"
      <3>1. \A s : Covers(r, s) => Fetches(r, s)
        BY <1>n, <2>4 DEF Covers, Fetches, also
      <3> QED BY <2>1, <2>2, <2>4, <3>1
    <2>5. CASE also = "refreshOptInStatus"
      <3>0. \A s : Fetches("refreshOptInStatus", s) => s = "optIn"
        <4>1. Reads["refreshOptInStatus"].sections = <<"optIn">>
          BY ReadsAre, FetchFine DEF refreshOptInStatus
        <4>2. \A i \in 1..Len(<<"optIn">>) : <<"optIn">>[i] = "optIn"
          OBVIOUS
        <4> QED BY <4>1, <4>2 DEF Fetches
      <3>1. \A s : Covers(r, s) => Fetches(r, s) \/ s = "optIn"
        BY <2>5, <3>0 DEF Covers, also
      <3>2. More(b, StatusRefresh(b)) /\ Fixes(StatusRefresh(b), "optIn")
        BY <2>a, StatusRefreshed DEF More
      <3>3. More(a, StatusRefresh(b)) /\ \A s : Fixes(b, s) => Fixes(StatusRefresh(b), s)
        BY <2>2, <3>2, MoreTwice
      <3>4. Refresh(a, r) = StatusRefresh(b)
        BY <2>1, <2>5
      <3> QED BY <2>2, <3>1, <3>2, <3>3, <3>4
    <2>6. CASE also = "refreshPowerSchemes"
      <3> DEFINE c == PlainRefresh(b, also)
      <3>1. also \in DOMAIN Reads
        BY <2>6, ReadsAre
      <3>2. More(b, c) /\ \A s : Fetches(also, s) => Fixes(c, s)
        BY <2>a, <3>1, PlainRefreshed DEF More
      <3>3. Refresh(a, r) = c
        BY <2>1, <2>6
      <3> HIDE DEF c
      <3>4. More(a, c) /\ \A s : Fixes(b, s) => Fixes(c, s)
        BY <2>2, <3>2, MoreTwice
      <3>5. \A s : Covers(r, s) => Fetches(r, s) \/ Fetches(also, s)
        BY DEF Covers, also
      <3> QED BY <2>2, <3>2, <3>3, <3>4, <3>5
    <2> QED BY <2>3, <2>4, <2>5, <2>6
  <1> QED BY <1>1, <1>2, <1>3 DEF ReadNames

(***************************************************************************)
(* runPendingRefreshes().                                                  *)
(***************************************************************************)
IsRun(f, n, a) ==
    \A k \in 0..n :
      f[k] = IF k = 0 THEN [a EXCEPT !.pending = {}]
             ELSE IF Reads[PendingOrder[k]].bit \in a.pending
                  THEN Refresh(f[k - 1], PendingOrder[k])
                  ELSE f[k - 1]

LEMMA RunExists ==
    ASSUME NEW a, NEW n \in Nat
    PROVE  \E f : DOMAIN f = 0..n /\ f = [k \in 0..n |-> f[k]] /\ IsRun(f, n, a)
  <1> DEFINE Reached(m) == \E f : DOMAIN f = 0..m /\ f = [k \in 0..m |-> f[k]] /\ IsRun(f, m, a)
             N == {k \in Nat : Reached(k)}
             Step(x, k) == IF Reads[PendingOrder[k]].bit \in a.pending
                           THEN Refresh(x, PendingOrder[k]) ELSE x
  <1>1. 0 \in N
    <2> DEFINE e == [a EXCEPT !.pending = {}]
               f == [k \in 0..0 |-> e]
    <2> HIDE DEF e
    <2>1. DOMAIN f = 0..0 /\ f = [k \in 0..0 |-> f[k]] /\ \A k \in 0..0 : k = 0 /\ f[k] = e
      OBVIOUS
    <2> HIDE DEF f
    <2>2. IsRun(f, 0, a)
      BY <2>1 DEF IsRun, e
    <2>3. Reached(0)
      BY <2>1, <2>2
    <2> QED BY <2>3
  <1>2. ASSUME NEW m \in N
        PROVE  m + 1 \in N
    <2>0. m \in Nat /\ m + 1 \in Nat
      OBVIOUS
    <2>1. PICK f : DOMAIN f = 0..m /\ f = [k \in 0..m |-> f[k]] /\ IsRun(f, m, a)
      OBVIOUS
    <2> DEFINE last == Step(f[m], m + 1)
               g == [k \in 0..(m + 1) |-> IF k = m + 1 THEN last ELSE f[k]]
    <2> HIDE DEF N, last
    <2>2. /\ DOMAIN g = 0..(m + 1) /\ g = [k \in 0..(m + 1) |-> g[k]] /\ g[m + 1] = last
          /\ \A k \in 0..m : g[k] = f[k]
      BY <2>0
    <2> HIDE DEF g
    <2>3. ASSUME NEW k \in 0..(m + 1)
          PROVE  g[k] = IF k = 0 THEN [a EXCEPT !.pending = {}] ELSE Step(g[k - 1], k)
      <3>1. CASE k = m + 1
        <4>1. k # 0 /\ k - 1 = m /\ m \in 0..m
          BY <2>0, <3>1
        <4> QED BY <2>2, <3>1, <4>1 DEF last
      <3>2. CASE k \in 0..m /\ k = 0
        BY <2>1, <2>2, <3>2 DEF IsRun
      <3>3. CASE k \in 0..m /\ k # 0
        <4>1. k - 1 \in 0..m
          BY <2>0, <3>3
        <4>2. f[k] = Step(f[k - 1], k)
          BY <2>1, <3>3 DEF IsRun
        <4> HIDE DEF Step
        <4> QED BY <2>2, <3>3, <4>1, <4>2
      <3> QED BY <2>0, <3>1, <3>2, <3>3
    <2>4. IsRun(g, m + 1, a)
      BY <2>3 DEF IsRun
    <2>5. Reached(m + 1)
      BY <2>2, <2>4
    <2> QED BY <2>0, <2>5 DEF N
  <1> HIDE DEF N, Reached
  <1>3. N \in SUBSET Nat
    BY DEF N
  <1>4. n \in N
    BY <1>1, <1>2, <1>3, Induct
  <1> QED BY <1>4 DEF N, Reached

LEMMA RunIs ==
    ASSUME NEW a
    PROVE  \E f : IsRun(f, 16, a) /\ RunPending(a) = f[16]
  <1> DEFINE Def(f) == [k \in 0..16 |->
                 IF k = 0 THEN [a EXCEPT !.pending = {}]
                 ELSE IF Reads[PendingOrder[k]].bit \in a.pending
                      THEN Refresh(f[k - 1], PendingOrder[k])
                      ELSE f[k - 1]]
             g == CHOOSE f : f = Def(f)
  <1>1. RunPending(a) = g[16]
    BY OrderFine DEF RunPending
  <1>2. PICK f : DOMAIN f = 0..16 /\ f = [k \in 0..16 |-> f[k]] /\ IsRun(f, 16, a)
    BY RunExists
  <1>3. f = Def(f)
    <2>1. \A k \in 0..16 : f[k] = Def(f)[k]
      BY <1>2 DEF IsRun
    <2>2. Def(f) = [k \in 0..16 |-> Def(f)[k]]
      OBVIOUS
    <2> HIDE DEF Def
    <2> QED BY <1>2, <2>1, <2>2
  <1>4. g = Def(g)
    <2> HIDE DEF Def
    <2> QED BY <1>3
  <1>5. IsRun(g, 16, a)
    <2>1. \A k \in 0..16 : g[k] = Def(g)[k]
      <3> HIDE DEF Def, g
      <3> QED BY <1>4
    <2> HIDE DEF g
    <2> QED BY <2>1 DEF IsRun
  <1> HIDE DEF g
  <1> QED BY <1>1, <1>5

\* The replay sends every read that was deferred, and nothing waits any more.
LEMMA Ran ==
    ASSUME NEW a, AppOk(a), ~a.connecting
    PROVE  LET b == RunPending(a)
           IN  /\ AppOk(b) /\ Grown(a, b) /\ b.pending = {}
               /\ \A s : Fixes(a, s) => Fixes(b, s)
  <1> DEFINE e == [a EXCEPT !.pending = {}]
  <1>0. a \in AppType /\ StatusFits(a) /\ Len(a.calls) \in Nat
    BY Shape DEF AppOk
  <1>1. e \in AppType /\ e.calls = a.calls /\ e.statusBusy = a.statusBusy /\ e.pending = {}
        /\ e.connecting = a.connecting
    BY <1>0 DEF AppType
  <1> HIDE DEF e
  <1>2. AppOk(e) /\ Grown(a, e)
    BY <1>0, <1>1 DEF AppOk, StatusFits, Grown
  <1>3. PICK f : IsRun(f, 16, a) /\ RunPending(a) = f[16]
    BY RunIs
  <1> DEFINE Asked(k) == Reads[PendingOrder[k]].bit \in a.pending
             Good(k) == /\ More(e, f[k])
                        /\ \A j \in 1..k : \A s :
                              Asked(j) /\ Covers(PendingOrder[j], s) => Fixes(f[k], s)
             N == {k \in Nat : k <= 16 => Good(k)}
  <1>4. 0 \in N
    <2>1. f[0] = e
      BY <1>3 DEF IsRun, e
    <2>2. More(e, e)
      BY <1>2, MoreNone
    <2>3. Good(0)
      BY <2>1, <2>2
    <2> HIDE DEF Good
    <2> QED BY <2>3
  <1>5. ASSUME NEW k \in N
        PROVE  k + 1 \in N
    <2>0. k \in Nat /\ k + 1 \in Nat /\ (k + 1) - 1 = k /\ k + 1 # 0
      <3> HIDE DEF Good
      <3> QED OBVIOUS
    <2> SUFFICES ASSUME k + 1 <= 16
                 PROVE  Good(k + 1)
      <3> HIDE DEF Good
      <3> QED BY <2>0
    <2>1. Good(k)
      <3> HIDE DEF Good
      <3> QED BY <2>0
    <2> HIDE DEF N
    <2> DEFINE q == PendingOrder[k + 1]
               d == f[k + 1]
    <2>2. q \in DOMAIN Reads /\ q \in ReadNames
      BY <2>0, OrderFine DEF ReadNames
    <2>3. d = IF Asked(k + 1) THEN Refresh(f[k], q) ELSE f[k]
      BY <1>3, <2>0 DEF IsRun
    <2>4. AppOk(f[k])
      BY <2>1 DEF More
    <2>5. \A j \in 1..(k + 1) : j \in 1..k \/ j = k + 1
      BY <2>0
    <2>6. CASE Asked(k + 1)
      <3>1. More(f[k], d) /\ \A s : Covers(q, s) => Fixes(d, s)
        BY <2>2, <2>3, <2>4, <2>6, Refreshed
      <3> HIDE DEF d
      <3>2. More(e, d) /\ \A s : Fixes(f[k], s) => Fixes(d, s)
        BY <1>2, <2>1, <3>1, MoreTwice
      <3> HIDE DEF q, Asked
      <3>3. \A j \in 1..(k + 1) : \A s :
                Asked(j) /\ Covers(PendingOrder[j], s) => Fixes(d, s)
        BY <2>1, <2>5, <3>1, <3>2 DEF q
      <3> QED BY <3>2, <3>3 DEF d
    <2>7. CASE ~Asked(k + 1)
      <3>1. d = f[k]
        BY <2>3, <2>7
      <3> HIDE DEF d, q, Asked
      <3>2. \A j \in 1..(k + 1) : \A s :
                Asked(j) /\ Covers(PendingOrder[j], s) => Fixes(d, s)
        BY <2>1, <2>5, <2>7, <3>1
      <3> QED BY <2>1, <3>1, <3>2 DEF d
    <2> QED BY <2>6, <2>7
  <1> HIDE DEF N, Good
  <1>6. N \in SUBSET Nat
    BY DEF N
  <1>7. 16 \in N
    BY <1>4, <1>5, <1>6, Induct
  <1>8. Good(16)
    BY <1>7 DEF N
  <1> DEFINE b == RunPending(a)
  <1>9. More(e, b) /\ \A j \in 1..16 : \A s :
            Asked(j) /\ Covers(PendingOrder[j], s) => Fixes(b, s)
    BY <1>3, <1>8 DEF Good
  <1> HIDE DEF b
  <1>10. AppOk(b) /\ Grown(e, b) /\ b.pending = {}
    BY <1>1, <1>9 DEF More
  <1>11. Grown(a, b)
    BY <1>0, <1>1, <1>2, <1>10, GrownTwice DEF AppOk
  <1>12. ASSUME NEW s, Fixes(a, s)
         PROVE  Fixes(b, s)
    <2>1. CASE \E i \in 1..Len(a.calls) : Shower(a.calls[i], s)
      <3>1. Fixes(e, s)
        BY <1>1, <2>1 DEF Fixes
      <3> QED BY <1>1, <1>10, <3>1, GrownFixes DEF AppOk
    <2>2. CASE \E r \in DOMAIN Reads : Reads[r].bit \in a.pending /\ Fetches(r, s)
      <3>1. PICK r \in DOMAIN Reads : Reads[r].bit \in a.pending /\ Fetches(r, s)
        BY <2>2
      <3>2. PICK k \in 1..16 : Replays(PendingOrder[k], Reads[r].bit, s)
        BY <1>12, <3>1, ReplayFine
      <3>3. Asked(k) /\ Covers(PendingOrder[k], s)
        BY <3>1, <3>2, OrderFine DEF Replays, Covers
      <3> QED BY <1>9, <1>12, <3>3
    <2> QED BY <1>12, <2>1, <2>2 DEF Fixes
  <1> QED BY <1>10, <1>11, <1>12 DEF b

-----------------------------------------------------------------------------
(***************************************************************************)
(* The inductive invariant.                                                *)
(***************************************************************************)
Consented == {Received, InSession}

\* A change is one of the menu, at one of its requests; all but fetches and changes are
\* about the consent; what was read of a consent, and an accepted code, was given; a reply
\* that is outdated is under way.
CallOk(c, given) ==
    /\ c.op \in ChangeOps =>
          /\ c.op \in menu.changes /\ c.section = Changes[c.op].section
          /\ c.step \in 1..Len(Changes[c.op].steps)
    /\ c.op \notin ChangeOps \cup {"fetch"} => c.section = "optIn"
    /\ c.seen \in Consented => given
    /\ c.op = "sendOptInCode" /\ c.got => given
    /\ c.old => c.got

CallsOk(a, given) == \A i \in 1..Len(a.calls) : CallOk(a.calls[i], given)

\* A section that shows less than the device holds is excused or will be read, and one that
\* a reply under way would set back is excused.
OldShow(a, s) ==
    \E i \in 1..Len(a.calls) : Shows(a.calls[i]) /\ a.calls[i].old /\ a.calls[i].section = s

BehindOk(a, B, X) ==
    /\ \A s : OldShow(a, s) => s \in X
    /\ \A s \in B : s \in X \/ Fixes(a, s)

Types ==
    /\ menu \in MenuType /\ app \in AppType /\ consent \in ConsentState
    /\ fw \in NotStarted..InSession /\ granted \in BOOLEAN /\ behind \in SUBSET Sections

DetailsInv ==
    /\ Types
    /\ StatusFits(app)
    /\ CallsOk(app, granted)
    /\ BehindOk(app, behind, excuse)
    /\ consent.state \in Consented => granted
    /\ fw \in Consented => granted

-----------------------------------------------------------------------------
(***************************************************************************)
(* Steps of the controller that only add requests.                         *)
(***************************************************************************)
\* b has the requests of a and some that are well-formed and read nothing yet.
Added(a, b, given) ==
    /\ Len(a.calls) <= Len(b.calls)
    /\ \A i \in 1..Len(a.calls) : b.calls[i] = a.calls[i]
    /\ \A i \in 1..Len(b.calls) : i > Len(a.calls) => ~b.calls[i].old /\ CallOk(b.calls[i], given)

\* And what a will show, b will show.
Kept(a, b, given) ==
    /\ AppOk(b) /\ Added(a, b, given)
    /\ \A s : Fixes(a, s) => Fixes(b, s)

LEMMA FreshOk == ASSUME NEW c, Fresh(c), NEW given PROVE ~c.old /\ CallOk(c, given)
  <1>1. 0 \notin Consented
    BY DEF Consented, Received, InSession
  <1> QED BY <1>1 DEF Fresh, CallOk

LEMMA GrownAdded == ASSUME NEW a, NEW b, Grown(a, b), NEW given PROVE Added(a, b, given)
  BY FreshOk DEF Grown, Added

LEMMA KeptOk ==
    ASSUME NEW a \in AppType, NEW b, NEW given, Kept(a, b, given), CallsOk(a, given)
    PROVE  /\ AppOk(b) /\ CallsOk(b, given)
           /\ \A s : OldShow(b, s) => OldShow(a, s)
           /\ \A B, X : BehindOk(a, B, X) => BehindOk(b, B, X)
  <1>1. Len(a.calls) \in Nat /\ Len(b.calls) \in Nat /\ b \in AppType
    BY Shape DEF Kept, AppOk
  <1>2. \A i \in 1..Len(b.calls) :
            \/ i \in 1..Len(a.calls) /\ b.calls[i] = a.calls[i]
            \/ ~b.calls[i].old /\ CallOk(b.calls[i], given)
    BY <1>1 DEF Kept, Added
  <1>3. CallsOk(b, given)
    BY <1>2 DEF CallsOk
  <1>4. \A s : OldShow(b, s) => OldShow(a, s)
    BY <1>2 DEF OldShow
  <1>5. \A B, X : BehindOk(a, B, X) => BehindOk(b, B, X)
    BY <1>4 DEF BehindOk, Kept
  <1> QED BY <1>3, <1>4, <1>5 DEF Kept

LEMMA KeptTwice ==
    ASSUME NEW a \in AppType, NEW b, NEW c, NEW given, Kept(a, b, given), Kept(b, c, given)
    PROVE  Kept(a, c, given)
  <1>1. Len(a.calls) \in Nat /\ Len(b.calls) \in Nat /\ Len(c.calls) \in Nat
    BY Shape DEF Kept, AppOk
  <1>2. Added(a, c, given)
    <2>1. Added(a, b, given) /\ Added(b, c, given)
      BY DEF Kept
    <2>2. ASSUME NEW i \in 1..Len(c.calls), i > Len(a.calls)
          PROVE  ~c.calls[i].old /\ CallOk(c.calls[i], given)
      <3>1. CASE i > Len(b.calls)
        BY <2>1, <2>2, <3>1 DEF Added
      <3>2. CASE ~(i > Len(b.calls))
        <4>1. i \in 1..Len(b.calls)
          BY <1>1, <3>2
        <4> QED BY <2>1, <2>2, <4>1 DEF Added
      <3> QED BY <3>1, <3>2
    <2>3. ASSUME NEW i \in 1..Len(a.calls)
          PROVE  c.calls[i] = a.calls[i]
      <3>1. i \in 1..Len(b.calls)
        BY <1>1, <2>1 DEF Added
      <3> QED BY <2>1, <3>1 DEF Added
    <2>4. Len(a.calls) <= Len(c.calls)
      BY <1>1, <2>1 DEF Added
    <2> QED BY <2>2, <2>3, <2>4 DEF Added
  <1> QED BY <1>2 DEF Kept

LEMMA MoreKept ==
    ASSUME NEW a, AppOk(a), NEW b, More(a, b), NEW given
    PROVE  Kept(a, b, given)
  <1>1. Added(a, b, given)
    BY GrownAdded DEF More
  <1>2. \A s : Fixes(a, s) => Fixes(b, s)
    BY GrownFixes DEF More, AppOk
  <1> QED BY <1>1, <1>2 DEF Kept, More

\* The tunnel, the resumption and the gate do not touch the requests.
LEMMA Touched ==
    ASSUME NEW a, AppOk(a), NEW b \in AppType, b.calls = a.calls, b.statusBusy = a.statusBusy,
           NEW given
    PROVE  /\ AppOk(b) /\ Added(a, b, given)
           /\ a.pending \subseteq b.pending => Kept(a, b, given)
  <1>1. Len(a.calls) \in Nat
    BY Shape DEF AppOk
  <1>2. AppOk(b)
    BY DEF AppOk, StatusFits
  <1>3. Added(a, b, given)
    BY <1>1 DEF Added
  <1>4. a.pending \subseteq b.pending => \A s : Fixes(a, s) => Fixes(b, s)
    BY DEF Fixes
  <1> QED BY <1>2, <1>3, <1>4 DEF Kept

LEMMA RanKept ==
    ASSUME NEW a, AppOk(a), ~a.connecting, NEW given
    PROVE  Kept(a, RunPending(a), given)
  <1> DEFINE b == RunPending(a)
  <1>1. AppOk(b) /\ Grown(a, b) /\ \A s : Fixes(a, s) => Fixes(b, s)
    BY Ran
  <1> HIDE DEF b
  <1>2. Kept(a, b, given)
    BY <1>1, GrownAdded DEF Kept
  <1> QED BY <1>2 DEF b

\* A request other than a status read.
LEMMA SentKept ==
    ASSUME NEW a, AppOk(a), NEW op \in Ops, op # "status", NEW section \in Sections,
           NEW step \in Nat, NEW given, CallOk(NewRequest(a, op, section, step), given)
    PROVE  /\ Kept(a, Send(a, op, section, step), given)
           /\ \A s : Shower(NewRequest(a, op, section, step), s)
                        => Fixes(Send(a, op, section, step), s)
  <1> DEFINE b == Send(a, op, section, step)
             c == NewRequest(a, op, section, step)
             n == Len(a.calls)
  <1>1. a \in AppType /\ StatusFits(a) /\ n \in Nat
    BY Shape DEF AppOk
  <1>2. c.op = op /\ ~c.old
    BY RequestMade
  <1>3. /\ b \in AppType /\ Len(b.calls) = n + 1 /\ \A i \in 1..n : b.calls[i] = a.calls[i]
        /\ b.calls[n + 1] = c /\ b.pending = a.pending /\ b.statusBusy = a.statusBusy
    BY <1>1, Sent
  <1>4. CallOk(c, given)
    OBVIOUS
  <1> HIDE DEF b, c
  <1>5. \A i \in 1..Len(b.calls) : i \in 1..n \/ i = n + 1
    BY <1>1, <1>3
  <1>6. n <= Len(b.calls) /\ n + 1 \in 1..Len(b.calls) /\ \A i \in 1..n : i \in 1..Len(b.calls) /\ ~(i > n)
    BY <1>1, <1>3
  <1>7. Added(a, b, given)
    <2>1. \A i \in 1..Len(b.calls) : i > n => ~b.calls[i].old /\ CallOk(b.calls[i], given)
      BY <1>2, <1>3, <1>4, <1>5, <1>6
    <2> QED BY <1>3, <1>6, <2>1 DEF Added
  <1>8. StatusFits(b)
    <2>1. \A i \in 1..Len(b.calls) :
             b.calls[i].op = "status" => i \in 1..n /\ a.calls[i].op = "status"
      BY <1>2, <1>3, <1>5
    <2>2. a.statusBusy => \E i \in 1..n : a.calls[i].op = "status"
      BY <1>1 DEF StatusFits
    <2>3. a.statusBusy => \E i \in 1..Len(b.calls) : b.calls[i].op = "status"
      BY <1>3, <1>6, <2>2
    <2> QED BY <1>1, <1>3, <2>1, <2>3 DEF StatusFits
  <1>9. \A s : Fixes(a, s) => Fixes(b, s)
    <2> SUFFICES ASSUME NEW s, Fixes(a, s)
                 PROVE  Fixes(b, s)
      OBVIOUS
    <2>1. CASE \E i \in 1..n : Shower(a.calls[i], s)
      BY <1>3, <1>6, <2>1 DEF Fixes
    <2> QED BY <1>3, <2>1 DEF Fixes
  <1>10. \A s : Shower(c, s) => Fixes(b, s)
    BY <1>3, <1>6 DEF Fixes
  <1> QED BY <1>3, <1>7, <1>8, <1>9, <1>10 DEF Kept, AppOk, b, c

(***************************************************************************)
(* A request that is over.                                                 *)
(***************************************************************************)
LEMMA Removed ==
    ASSUME NEW a \in AppType, NEW i \in 1..Len(a.calls)
    PROVE  LET b == Without(a, i)
               n == Len(a.calls)
           IN  /\ b \in AppType /\ Len(b.calls) = n - 1
               /\ \A j \in 1..(n - 1) : b.calls[j] = a.calls[IF j < i THEN j ELSE j + 1]
               /\ b.pending = a.pending /\ b.statusBusy = a.statusBusy
               /\ b.connecting = a.connecting
  <1> DEFINE q == a.calls
             n == Len(q)
             u == SubSeq(q, 1, i - 1)
             v == SubSeq(q, i + 1, n)
             t == u \o v
  <1>1. q \in Seq(Request) /\ n \in Nat /\ i \in 1..n
    BY Shape
  <1>2. Without(a, i) = [a EXCEPT !.calls = t]
    BY DEF Without, RemoveAt
  <1> HIDE DEF q, n
  <1>3. i \in Int /\ 1 <= i /\ i <= n /\ i - 1 \in 0..n /\ n - i \in Nat /\ n \in Int
    BY <1>1
  <1>u. u \in Seq(Request) /\ Len(u) = i - 1 /\ \A j \in 1..(i - 1) : u[j] = q[j]
    <2>1. \A j \in 1..(i - 1) : j \in 1..n
      BY <1>1, <1>3
    <2>2. i - 1 \in Nat
      BY <1>3
    <2>3. n = Len(q)
      BY DEF n
    <2> QED BY <1>1, <1>3, <2>1, <2>2, <2>3
  <1>v. v \in Seq(Request) /\ Len(v) = n - i /\ \A j \in 1..(n - i) : v[j] = q[i + j]
    <2>3. n = Len(q)
      BY DEF n
    <2> QED BY <1>1, <1>3, <2>3
  <1> HIDE DEF u, v
  <1>4. t \in Seq(Request) /\ Len(t) = n - 1
    <2>1. u \in Seq(Request) /\ v \in Seq(Request)
      BY <1>u, <1>v
    <2>2. t \in Seq(Request) /\ Len(t) = Len(u) + Len(v)
      BY <2>1, ConcatProperties
    <2> HIDE DEF t
    <2> QED BY <1>3, <1>u, <1>v, <2>2
  <1>c. \A j \in 1..Len(u) + Len(v) : t[j] = IF j <= Len(u) THEN u[j] ELSE v[j - Len(u)]
    <2>1. u \in Seq(Request) /\ v \in Seq(Request)
      BY <1>u, <1>v
    <2> QED BY <2>1, ConcatProperties
  <1> HIDE DEF t
  <1>5. \A j \in 1..(i - 1) : t[j] = q[j]
    <2>1. \A j \in 1..(i - 1) : j \in 1..Len(u) + Len(v) /\ j <= Len(u)
      BY <1>3, <1>u, <1>v
    <2> QED BY <1>c, <1>u, <2>1
  <1>6. \A j \in 1..(n - i) : t[(i - 1) + j] = q[i + j]
    <2> SUFFICES ASSUME NEW j \in 1..(n - i)
                 PROVE  t[(i - 1) + j] = q[i + j]
      OBVIOUS
    <2> DEFINE k == (i - 1) + j
    <2>1. k \in 1..Len(u) + Len(v) /\ ~(k <= Len(u)) /\ k - Len(u) = j
      BY <1>3, <1>u, <1>v
    <2> HIDE DEF k
    <2>2. t[k] = v[j]
      BY <1>c, <2>1
    <2> QED BY <1>v, <2>2 DEF k
  <1>7. ASSUME NEW j \in 1..(n - 1)
        PROVE  t[j] = q[IF j < i THEN j ELSE j + 1]
    <2>1. CASE j < i
      <3>1. j \in 1..(i - 1)
        BY <1>3, <2>1
      <3> QED BY <1>5, <2>1, <3>1
    <2>2. CASE ~(j < i)
      <3> DEFINE k == j - (i - 1)
      <3>1. k \in 1..(n - i) /\ (i - 1) + k = j /\ i + k = j + 1
        BY <1>3, <2>2
      <3> HIDE DEF k
      <3>2. t[j] = q[j + 1]
        BY <1>6, <3>1
      <3> QED BY <2>2, <3>2
    <2> QED BY <2>1, <2>2
  <1> DEFINE b == Without(a, i)
  <1>8. /\ b \in AppType /\ b.calls = t /\ b.pending = a.pending /\ b.statusBusy = a.statusBusy
        /\ b.connecting = a.connecting
    BY <1>2, <1>4 DEF AppType
  <1> HIDE DEF b
  <1>9. b.calls = t /\ Len(b.calls) = n - 1
    BY <1>4, <1>8
  <1> QED BY <1>7, <1>8, <1>9 DEF b, n, q

\* The others stay, the one is gone.
LEMMA RestIs ==
    ASSUME NEW a \in AppType, NEW i \in 1..Len(a.calls)
    PROVE  LET b == Without(a, i)
           IN  /\ b \in AppType /\ b.pending = a.pending /\ b.statusBusy = a.statusBusy
               /\ b.connecting = a.connecting
               /\ \A j \in 1..Len(b.calls) :
                     \E k \in 1..Len(a.calls) : k # i /\ b.calls[j] = a.calls[k]
               /\ \A k \in 1..Len(a.calls) :
                     k # i => \E j \in 1..Len(b.calls) : b.calls[j] = a.calls[k]
               /\ \A j, m \in 1..Len(b.calls) :
                     j # m => \E k, l \in 1..Len(a.calls) :
                                 /\ k # l /\ b.calls[j] = a.calls[k] /\ b.calls[m] = a.calls[l]
  <1> DEFINE b == Without(a, i)
             n == Len(a.calls)
             At(j) == IF j < i THEN j ELSE j + 1
  <1>1. n \in Nat /\ i \in 1..n
    BY Shape
  <1>2. /\ b \in AppType /\ Len(b.calls) = n - 1
        /\ \A j \in 1..(n - 1) : b.calls[j] = a.calls[At(j)]
        /\ b.pending = a.pending /\ b.statusBusy = a.statusBusy
        /\ b.connecting = a.connecting
    BY Removed
  <1> HIDE DEF b, n
  <1>3. \A j \in 1..(n - 1) : At(j) \in 1..n /\ At(j) # i
    BY <1>1
  <1>4. \A j, m \in 1..(n - 1) : j # m => At(j) # At(m)
    BY <1>1
  <1>5. ASSUME NEW k \in 1..n, k # i
        PROVE  \E j \in 1..(n - 1) : At(j) = k
    <2>1. CASE k < i
      <3>1. k \in 1..(n - 1) /\ At(k) = k
        BY <1>1, <2>1
      <3> QED BY <3>1
    <2>2. CASE ~(k < i)
      <3>1. k - 1 \in 1..(n - 1) /\ At(k - 1) = k
        BY <1>1, <1>5, <2>2
      <3> QED BY <3>1
    <2> QED BY <2>1, <2>2
  <1> HIDE DEF At
  <1>6. \A j \in 1..Len(b.calls) : \E k \in 1..n : k # i /\ b.calls[j] = a.calls[k]
    BY <1>2, <1>3
  <1>7. \A k \in 1..n : k # i => \E j \in 1..Len(b.calls) : b.calls[j] = a.calls[k]
    BY <1>2, <1>5
  <1>8. ASSUME NEW j \in 1..Len(b.calls), NEW m \in 1..Len(b.calls), j # m
        PROVE  \E k, l \in 1..n : /\ k # l /\ b.calls[j] = a.calls[k] /\ b.calls[m] = a.calls[l]
    <2>1. At(j) \in 1..n /\ At(m) \in 1..n /\ At(j) # At(m)
          /\ b.calls[j] = a.calls[At(j)] /\ b.calls[m] = a.calls[At(m)]
      BY <1>2, <1>3, <1>4, <1>8
    <2> QED BY <2>1
  <1> QED BY <1>2, <1>6, <1>7, <1>8 DEF b, n

LEMMA RestOk ==
    ASSUME NEW a, AppOk(a), NEW i \in 1..Len(a.calls), NEW given, CallsOk(a, given)
    PROVE  LET b == Without(a, i)
           IN  /\ b \in AppType /\ CallsOk(b, given)
               /\ a.calls[i].op # "status" => StatusFits(b)
               /\ a.calls[i].op = "status" =>
                     /\ \A j \in 1..Len(b.calls) : b.calls[j].op # "status"
                     /\ StatusFits([b EXCEPT !.statusBusy = FALSE])
                     /\ b.statusBusy
               /\ \A s : OldShow(b, s) => OldShow(a, s)
               /\ \A s : Fixes(a, s) => Fixes(b, s) \/ Shower(a.calls[i], s)
  <1> DEFINE b == Without(a, i)
             n == Len(a.calls)
             m == Len(b.calls)
  <1>0. a \in AppType /\ StatusFits(a)
    BY DEF AppOk
  <1>1. /\ b \in AppType /\ b.pending = a.pending /\ b.statusBusy = a.statusBusy
    BY <1>0, RestIs
  <1>a. \A j \in 1..m : \E k \in 1..n : k # i /\ b.calls[j] = a.calls[k]
    BY <1>0, RestIs
  <1>b. \A k \in 1..n : k # i => \E j \in 1..m : b.calls[j] = a.calls[k]
    BY <1>0, RestIs
  <1>c. \A j, l \in 1..m :
           j # l => \E k, h \in 1..n :
                       /\ k # h /\ b.calls[j] = a.calls[k] /\ b.calls[l] = a.calls[h]
    BY <1>0, RestIs
  <1> HIDE DEF b
  <1>2. CallsOk(b, given)
    BY <1>a DEF CallsOk
  <1>3. ASSUME NEW s, OldShow(b, s) PROVE OldShow(a, s)
    <2>1. PICK j \in 1..m : Shows(b.calls[j]) /\ b.calls[j].old /\ b.calls[j].section = s
      BY <1>3 DEF OldShow
    <2>2. PICK k \in 1..n : b.calls[j] = a.calls[k]
      BY <1>a
    <2>3. Shows(a.calls[k]) /\ a.calls[k].old /\ a.calls[k].section = s
      BY <2>1, <2>2
    <2> QED BY <2>3 DEF OldShow
  <1>4. \A s : Fixes(a, s) => Fixes(b, s) \/ Shower(a.calls[i], s)
    <2> SUFFICES ASSUME NEW s, Fixes(a, s), ~Shower(a.calls[i], s)
                 PROVE  Fixes(b, s)
      OBVIOUS
    <2>1. CASE \E k \in 1..n : Shower(a.calls[k], s)
      BY <1>b, <2>1 DEF Fixes
    <2> QED BY <1>1, <2>1 DEF Fixes
  <1>5. ASSUME a.calls[i].op # "status" PROVE StatusFits(b)
    <2>1. b.statusBusy => \E j \in 1..m : b.calls[j].op = "status"
      <3>1. ASSUME b.statusBusy PROVE \E k \in 1..n : a.calls[k].op = "status"
        BY <1>0, <1>1, <3>1 DEF StatusFits
      <3> QED BY <1>b, <1>5, <3>1
    <2>2. \A j \in 1..m :
             b.calls[j].op = "status" => b.statusBusy /\ b.calls[j].section = "optIn"
      <3>1. \A k \in 1..n :
               a.calls[k].op = "status" => b.statusBusy /\ a.calls[k].section = "optIn"
        BY <1>0, <1>1 DEF StatusFits
      <3> QED BY <1>a, <3>1
    <2>3. \A j, l \in 1..m : b.calls[j].op = "status" /\ b.calls[l].op = "status" => j = l
      <3>1. \A k, h \in 1..n : a.calls[k].op = "status" /\ a.calls[h].op = "status" => k = h
        BY <1>0 DEF StatusFits
      <3> SUFFICES ASSUME NEW j \in 1..m, NEW l \in 1..m, b.calls[j].op = "status",
                          b.calls[l].op = "status", j # l
                   PROVE  FALSE
        OBVIOUS
      <3>2. PICK k, h \in 1..n : /\ k # h /\ b.calls[j] = a.calls[k] /\ b.calls[l] = a.calls[h]
        BY <1>c
      <3> QED BY <3>1, <3>2
    <2> QED BY <2>1, <2>2, <2>3 DEF StatusFits
  <1>6. ASSUME a.calls[i].op = "status"
        PROVE  /\ \A j \in 1..m : b.calls[j].op # "status"
               /\ StatusFits([b EXCEPT !.statusBusy = FALSE])
               /\ b.statusBusy
    <2>1. \A j \in 1..m : b.calls[j].op # "status"
      <3>1. \A k \in 1..n : a.calls[k].op = "status" => k = i
        BY <1>0, <1>6 DEF StatusFits
      <3> QED BY <1>a, <3>1
    <2>2. b.statusBusy
      BY <1>0, <1>1, <1>6 DEF StatusFits
    <2> DEFINE d == [b EXCEPT !.statusBusy = FALSE]
    <2>3. d.calls = b.calls /\ d.statusBusy = FALSE
      BY <1>1 DEF AppType
    <2> HIDE DEF d
    <2>4. StatusFits(d)
      BY <2>1, <2>3 DEF StatusFits
    <2> QED BY <2>1, <2>2, <2>4 DEF d
  <1> QED BY <1>1, <1>2, <1>3, <1>4, <1>5, <1>6 DEF b

-----------------------------------------------------------------------------
(***************************************************************************)
(* User consent.                                                           *)
(***************************************************************************)
XType == [c : ConsentState, send : Seq({"startOptIn", "cancelOptIn"}), dial : SUBSET Tabs]

\* Consent is believed, and a gated panel started, only where it was given.
Honest(x, given) ==
    /\ x \in XType
    /\ x.c.state \in Consented => given
    /\ \A tab \in x.dial : consentRequiredFor(x.c, tab) => given

LEMMA QuietHonest ==
    ASSUME NEW c \in ConsentState, NEW given \in BOOLEAN, c.state \in Consented => given
    PROVE  Honest(Quiet(c), given)
  <1>1. <<>> \in Seq({"startOptIn", "cancelOptIn"})
    OBVIOUS
  <1>2. Quiet(c).c = c /\ Quiet(c).dial = {} /\ Quiet(c) \in XType
    BY <1>1 DEF Quiet, XType
  <1> QED BY <1>2 DEF Honest

\* What leaves the state, the policy and the panels as they are.
LEMMA SameHonest ==
    ASSUME NEW x, NEW given \in BOOLEAN, Honest(x, given), NEW y \in XType,
           y.c.state = x.c.state, y.c.raw = x.c.raw, y.dial = x.dial
    PROVE  Honest(y, given)
  BY DEF Honest, consentRequiredFor

LEMMA StartHonest ==
    ASSUME NEW x, NEW given \in BOOLEAN, Honest(x, given)
    PROVE  Honest(startOptIn(x), given)
  <1> DEFINE y == [x EXCEPT !.c.round = TRUE, !.send = Append(@, "startOptIn")]
  <1>1. x \in XType
    BY DEF Honest
  <1>2. x.send \in Seq({"startOptIn", "cancelOptIn"})
    BY <1>1 DEF XType
  <1>3. Append(x.send, "startOptIn") \in Seq({"startOptIn", "cancelOptIn"})
    BY <1>2
  <1>4. y \in XType /\ y.c.state = x.c.state /\ y.c.raw = x.c.raw /\ y.dial = x.dial
    BY <1>1, <1>3 DEF XType, ConsentState
  <1>5. startOptIn(x) \in {x, y}
    BY DEF startOptIn
  <1> HIDE DEF y
  <1>6. Honest(y, given)
    BY <1>4, SameHonest
  <1> QED BY <1>5, <1>6

LEMMA CancelHonest ==
    ASSUME NEW x, NEW given \in BOOLEAN, Honest(x, given)
    PROVE  Honest(cancelOptIn(x), given)
  <1> DEFINE y == cancelOptIn(x)
  <1>1. x \in XType
    BY DEF Honest
  <1>2. x.send \in Seq({"startOptIn", "cancelOptIn"})
    BY <1>1 DEF XType
  <1>3. Append(x.send, "cancelOptIn") \in Seq({"startOptIn", "cancelOptIn"})
    BY <1>2
  <1>4. y \in XType /\ y.c.state = x.c.state /\ y.c.raw = x.c.raw /\ y.dial = x.dial
    BY <1>1, <1>3 DEF XType, ConsentState, cancelOptIn
  <1> HIDE DEF y
  <1>5. Honest(y, given)
    BY <1>4, SameHonest
  <1> QED BY <1>5 DEF y

LEMMA EndHonest ==
    ASSUME NEW x, NEW given \in BOOLEAN, Honest(x, given)
    PROVE  Honest(EndRound(x), given)
  <1> DEFINE y == EndRound(x)
  <1>1. x \in XType
    BY DEF Honest
  <1>2. y \in XType /\ y.c.state = x.c.state /\ y.c.raw = x.c.raw /\ y.dial = x.dial
    BY <1>1 DEF XType, ConsentState, EndRound
  <1> HIDE DEF y
  <1>3. Honest(y, given)
    BY <1>2, SameHonest
  <1> QED BY <1>3 DEF y

LEMMA ResolvedHonest ==
    ASSUME NEW x, NEW given \in BOOLEAN, Honest(x, given),
           given \/ x.c.tab = NoTab \/ consentSatisfiedFor(x.c, x.c.tab)
    PROVE  Honest(consentResolved(x), given)
  <1> DEFINE y == consentResolved(x)
             D == x.dial \cup ({x.c.tab} \ {NoTab})
  <1>1. x \in XType /\ (x.c.state \in Consented => given)
    BY DEF Honest
  <1>2. D \in SUBSET Tabs
    BY <1>1 DEF XType, ConsentState
  <1>3. /\ y \in XType /\ y.c.state = x.c.state /\ y.c.raw = x.c.raw /\ y.dial = D
    <2> HIDE DEF D
    <2>1. y = [x EXCEPT !.dial = D, !.c.tab = NoTab]
      BY DEF consentResolved, D
    <2> DEFINE e == [x.c EXCEPT !.tab = NoTab]
    <2>2. e \in ConsentState /\ e.state = x.c.state /\ e.raw = x.c.raw
      BY <1>1 DEF XType, ConsentState
    <2>3. y = [x EXCEPT !.dial = D, !.c = e]
      BY <1>1, <2>1 DEF XType
    <2> HIDE DEF e, y
    <2> QED BY <1>1, <1>2, <2>2, <2>3 DEF XType
  <1> HIDE DEF y
  <1>4. ASSUME NEW tab \in D, consentRequiredFor(y.c, tab)
        PROVE  given
    <2>1. consentRequiredFor(x.c, tab)
      BY <1>3, <1>4 DEF consentRequiredFor
    <2>2. CASE tab \in x.dial
      BY <2>1, <2>2 DEF Honest
    <2>3. CASE tab = x.c.tab /\ tab # NoTab
      <3>1. given \/ consentSatisfiedFor(x.c, x.c.tab)
        BY <2>3
      <3>2. consentSatisfiedFor(x.c, tab) => x.c.state \in Consented
        BY <2>1 DEF consentSatisfiedFor, Consented
      <3> QED BY <1>1, <2>3, <3>1, <3>2
    <2> QED BY <2>2, <2>3
  <1>5. Honest(y, given)
    BY <1>1, <1>3, <1>4 DEF Honest
  <1> QED BY <1>5 DEF y

LEMMA DriveHonest ==
    ASSUME NEW x, NEW given \in BOOLEAN, Honest(x, given)
    PROVE  Honest(driveConsent(x), given)
  <1>1. CASE x.c.tab = NoTab \/ ~x.c.known
    BY <1>1 DEF driveConsent
  <1>2. CASE ~(x.c.tab = NoTab \/ ~x.c.known) /\ consentSatisfiedFor(x.c, x.c.tab)
    <2>1. driveConsent(x) = consentResolved(x)
      BY <1>2 DEF driveConsent
    <2> QED BY <1>2, <2>1, ResolvedHonest
  <1>3. CASE ~(x.c.tab = NoTab \/ ~x.c.known) /\ ~consentSatisfiedFor(x.c, x.c.tab)
    <2> DEFINE y == IF x.c.state = Displayed THEN cancelOptIn(x) ELSE x
    <2>1. driveConsent(x) \in {x, startOptIn(y)}
      BY <1>3 DEF driveConsent
    <2>2. Honest(y, given)
      <3>1. y \in {x, cancelOptIn(x)}
        OBVIOUS
      <3> HIDE DEF y
      <3> QED BY <3>1, CancelHonest
    <2> HIDE DEF y
    <2>3. Honest(startOptIn(y), given)
      BY <2>2, StartHonest
    <2> QED BY <2>1, <2>3
  <1> QED BY <1>1, <1>2, <1>3

(***************************************************************************)
(* The callbacks of the round and the window.                              *)
(***************************************************************************)
LEMMA StatusReadHonest ==
    ASSUME NEW c \in ConsentState, NEW given \in BOOLEAN, NEW raw \in {"none", "kvm", "all"},
           NEW state \in NotStarted..InSession, state \in Consented => given
    PROVE  Honest(StatusRead(c, raw, state), given)
  <1> DEFINE d == [c EXCEPT !.known = TRUE, !.raw = raw, !.state = state]
             x == driveConsent(Quiet(d))
  <1>1. d \in ConsentState /\ d.state = state
    BY DEF ConsentState
  <1> HIDE DEF d
  <1>2. Honest(Quiet(d), given)
    BY <1>1, QuietHonest
  <1>3. Honest(x, given)
    BY <1>2, DriveHonest
  <1>4. StatusRead(c, raw, state) \in {x, EndRound(x)}
        \/ (state \in Consented /\ StatusRead(c, raw, state) = consentResolved(EndRound(x)))
    BY DEF StatusRead, Consented, x, d
  <1> HIDE DEF x
  <1>5. Honest(EndRound(x), given)
    BY <1>3, EndHonest
  <1>6. given => Honest(consentResolved(EndRound(x)), given)
    BY <1>5, ResolvedHonest
  <1> QED BY <1>3, <1>4, <1>5, <1>6

LEMMA UnreadableHonest ==
    ASSUME NEW c \in ConsentState, NEW given \in BOOLEAN, c.state \in Consented => given
    PROVE  Honest(StatusUnreadable(c), given)
  <1> DEFINE d == [c EXCEPT !.known = TRUE]
  <1>1. d \in ConsentState /\ d.state = c.state
    BY DEF ConsentState
  <1> HIDE DEF d
  <1>2. Honest(Quiet(d), given) /\ Honest(Quiet(c), given)
    BY <1>1, QuietHonest
  <1>3. Honest(driveConsent(Quiet(d)), given)
    BY <1>2, DriveHonest
  <1>4. StatusUnreadable(c) \in {Quiet(c), driveConsent(Quiet(d))}
    BY DEF StatusUnreadable, d
  <1> QED BY <1>2, <1>3, <1>4

LEMMA StartReplyHonest ==
    ASSUME NEW c \in ConsentState, NEW given \in BOOLEAN, c.state \in Consented => given,
           NEW ok \in BOOLEAN
    PROVE  Honest(StartReply(c, ok), given)
  <1> DEFINE d == IF ok
                  THEN [c EXCEPT !.failures = 0, !.prompt = TRUE, !.polling = TRUE]
                  ELSE [c EXCEPT !.round = FALSE, !.failures = c.failures + 1,
                                 !.prompt = @ /\ c.failures + 1 < kMaxOptInFailures]
  <1>1. StartReply(c, ok) = Quiet(d)
    BY DEF StartReply
  <1>2. c.failures + 1 \in Nat /\ (c.prompt /\ c.failures + 1 < kMaxOptInFailures) \in BOOLEAN
    BY DEF ConsentState
  <1>3. d \in ConsentState /\ d.state = c.state
    BY <1>2 DEF ConsentState
  <1> HIDE DEF d
  <1>4. Honest(Quiet(d), given)
    BY <1>3, QuietHonest
  <1> QED BY <1>1, <1>4

LEMMA SendReplyHonest ==
    ASSUME NEW c \in ConsentState, NEW given \in BOOLEAN, c.state \in Consented => given,
           NEW ok \in BOOLEAN, ok => given
    PROVE  Honest(SendReply(c, ok), given)
  <1>1. CASE ~ok
    <2> DEFINE d == [c EXCEPT !.prompt = TRUE]
    <2>1. d \in ConsentState /\ d.state = c.state
      BY DEF ConsentState
    <2>2. SendReply(c, ok) = Quiet(d)
      BY <1>1 DEF SendReply
    <2> HIDE DEF d
    <2> QED BY <2>1, <2>2, QuietHonest
  <1>2. CASE ok
    <2> DEFINE d == [c EXCEPT !.polling = FALSE, !.failures = 0, !.round = FALSE,
                              !.state = Received]
               x == driveConsent(Quiet(d))
               y == [x EXCEPT !.c.prompt = FALSE]
    <2>0. Received \in NotStarted..InSession
      BY DEF Received, NotStarted, InSession
    <2>1. d \in ConsentState
      BY <2>0 DEF ConsentState
    <2>2. SendReply(c, ok) = consentResolved(y)
      BY <1>2 DEF SendReply
    <2> HIDE DEF d
    <2>3. Honest(x, given)
      BY <1>2, <2>1, QuietHonest, DriveHonest
    <2> HIDE DEF x
    <2>x. x \in XType
      BY <2>3 DEF Honest
    <2>4. y \in XType /\ y.c.state = x.c.state /\ y.c.raw = x.c.raw /\ y.dial = x.dial
      BY <2>x DEF XType, ConsentState
    <2> HIDE DEF y
    <2>5. Honest(y, given)
      BY <2>3, <2>4, SameHonest
    <2> QED BY <1>2, <2>2, <2>5, ResolvedHonest
  <1> QED BY <1>1, <1>2

LEMMA CancelReplyHonest ==
    ASSUME NEW c \in ConsentState, NEW given \in BOOLEAN
    PROVE  Honest(CancelReply(c), given)
  <1> DEFINE d == [c EXCEPT !.state = NotStarted]
  <1>1. d \in ConsentState /\ d.state \notin Consented
    BY DEF ConsentState, NotStarted, InSession, Received, Consented
  <1>2. CancelReply(c) = driveConsent(Quiet(d))
    BY DEF CancelReply
  <1> HIDE DEF d
  <1> QED BY <1>1, <1>2, QuietHonest, DriveHonest

LEMMA ConnectHonest ==
    ASSUME NEW c \in ConsentState, NEW given \in BOOLEAN, c.state \in Consented => given,
           NEW tab \in Tabs
    PROVE  Honest(RequestConnect(c, tab), given)
  <1> DEFINE d == [c EXCEPT !.tab = tab, !.failures = 0]
  <1>1. d \in ConsentState /\ d.state = c.state
    BY DEF ConsentState
  <1>2. RequestConnect(c, tab) = driveConsent(Quiet(d))
    BY DEF RequestConnect
  <1> HIDE DEF d
  <1> QED BY <1>1, <1>2, QuietHonest, DriveHonest

LEMMA CancelPromptHonest ==
    ASSUME NEW c \in ConsentState, NEW given \in BOOLEAN, c.state \in Consented => given
    PROVE  Honest(CancelPrompt(c), given)
  <1> DEFINE d == [c EXCEPT !.tab = NoTab, !.prompt = FALSE]
  <1>1. d \in ConsentState /\ d.state = c.state
    BY DEF ConsentState
  <1>2. CancelPrompt(c) = cancelOptIn(Quiet(d))
    BY DEF CancelPrompt
  <1> HIDE DEF d
  <1> QED BY <1>1, <1>2, QuietHonest, CancelHonest

LEMMA RoundSent ==
    ASSUME NEW a, AppOk(a), NEW t \in Seq({"startOptIn", "cancelOptIn"})
    PROVE  More(a, SendAll(a, t))
  <1> DEFINE b == SendAll(a, t)
             u == [i \in 1..Len(t) |-> NewRequest(a, t[i], "optIn", 1)]
  <1>0. a \in AppType /\ StatusFits(a) /\ Len(a.calls) \in Nat
    BY Shape DEF AppOk
  <1>1. b = [a EXCEPT !.calls = @ \o u]
    BY DEF SendAll
  <1>2. /\ "startOptIn" \in Ops /\ "startOptIn" \notin ChangeOps
        /\ "cancelOptIn" \in Ops /\ "cancelOptIn" \notin ChangeOps /\ "optIn" \in Sections
    BY ChangesFine, OptInListed DEF Ops
  <1>3. ASSUME NEW i \in 1..Len(t)
        PROVE  u[i] \in Request /\ Fresh(u[i]) /\ u[i].op # "status"
    <2>1. t[i] \in {"startOptIn", "cancelOptIn"}
      OBVIOUS
    <2> DEFINE p == t[i]
               c == NewRequest(a, p, "optIn", 1)
    <2>2. u[i] = c
      OBVIOUS
    <2> HIDE DEF p, u
    <2>3. p \in Ops /\ p \notin ChangeOps /\ p # "status"
      BY <1>2, <2>1 DEF p
    <2>4. c \in Request /\ c.op = p /\ c.section = "optIn" /\ ~c.got /\ ~c.old /\ c.seen = 0
      BY <1>2, <2>3, RequestMade
    <2> HIDE DEF c
    <2> QED BY <2>2, <2>3, <2>4 DEF Fresh
  <1>4. u \in Seq(Request) /\ Len(u) = Len(t)
    <2>1. \A i \in 1..Len(t) : u[i] \in Request
      BY <1>3
    <2> QED BY <2>1
  <1> HIDE DEF u, b
  <1>5. \A i \in 1..Len(u) : Fresh(u[i]) /\ u[i].op # "status"
    BY <1>3, <1>4
  <1>6. /\ b \in AppType /\ Grown(a, b) /\ Len(b.calls) = Len(a.calls) + Len(u)
        /\ \A i \in 1..Len(u) : b.calls[Len(a.calls) + i] = u[i]
        /\ b.pending = a.pending /\ b.statusBusy = a.statusBusy /\ b.connecting = a.connecting
    <2> DEFINE x == [a EXCEPT !.calls = @ \o u]
    <2>1. /\ x \in AppType /\ Grown(a, x) /\ Len(x.calls) = Len(a.calls) + Len(u)
          /\ \A i \in 1..Len(u) : x.calls[Len(a.calls) + i] = u[i]
          /\ x.pending = a.pending /\ x.statusBusy = a.statusBusy
          /\ x.connecting = a.connecting
      BY <1>0, <1>4, <1>5, SentAll
    <2> HIDE DEF x
    <2>2. b = x
      BY <1>1 DEF x
    <2> QED BY <2>1, <2>2
  <1>7. \A i \in 1..Len(b.calls) : i > Len(a.calls) => b.calls[i].op # "status"
    <2> SUFFICES ASSUME NEW i \in 1..Len(b.calls), i > Len(a.calls)
                 PROVE  b.calls[i].op # "status"
      OBVIOUS
    <2> DEFINE k == i - Len(a.calls)
    <2>0. Len(u) \in Nat
      BY <1>4
    <2>1. k \in 1..Len(u) /\ Len(a.calls) + k = i
      BY <1>0, <1>6, <2>0
    <2> HIDE DEF k
    <2> QED BY <1>5, <1>6, <2>1
  <1>8. StatusFits(b)
    BY <1>0, <1>6, <1>7, StatusGrows
  <1> QED BY <1>6, <1>8 DEF More, AppOk, b

\* What a step of the round does to the rest of the state.
LEMMA Applied ==
    ASSUME NEW a, AppOk(a), NEW x, Honest(x, granted), Apply(x, a)
    PROVE  /\ More(a, app') /\ consent' \in ConsentState
           /\ consent'.state \in Consented => granted
           /\ \A tab \in opened' \ opened : consentRequiredFor(consent', tab) => granted
  <1>1. x.send \in Seq({"startOptIn", "cancelOptIn"}) /\ x.c \in ConsentState
    BY DEF Honest, XType
  <1>2. More(a, app')
    BY <1>1, RoundSent DEF Apply
  <1>3. consent' = x.c /\ opened' = opened \cup x.dial
    BY DEF Apply
  <1>4. \A tab \in opened' \ opened : tab \in x.dial
    BY <1>3
  <1> QED BY <1>1, <1>2, <1>3, <1>4 DEF Honest

(***************************************************************************)
(* The next request of a change, or of the status read.                    *)
(***************************************************************************)
LEMMA AgainIs ==
    ASSUME NEW a \in AppType, NEW call \in Request
    PROVE  LET b == Again(a, call)
               n == Len(a.calls)
               c == b.calls[n + 1]
           IN  /\ b \in AppType /\ Len(b.calls) = n + 1
               /\ \A i \in 1..n : b.calls[i] = a.calls[i]
               /\ c.op = call.op /\ c.section = call.section /\ c.step = call.step + 1
               /\ c.seen = call.seen /\ ~c.got /\ ~c.old
               /\ b.pending = a.pending /\ b.statusBusy = a.statusBusy
               /\ b.connecting = a.connecting
  <1> DEFINE n == Len(a.calls)
             op == call.op
             section == call.section
             step == call.step + 1
             m == Send(a, op, section, step)
             e == NewRequest(a, op, section, step)
             f == [e EXCEPT !.seen = call.seen]
             b == Again(a, call)
             q == [m.calls EXCEPT ![n + 1] = f]
  <1>1. op \in Ops /\ section \in Sections /\ step \in Nat
        /\ call.seen \in NotStarted..InSession /\ n \in Nat
    BY Shape DEF Request
  <1> HIDE DEF op, section, step
  <1>2. /\ e \in Request /\ e.op = op /\ e.section = section /\ e.step = step
        /\ ~e.got /\ ~e.old
    BY <1>1, RequestMade
  <1>3. /\ m \in AppType /\ Len(m.calls) = n + 1
        /\ \A i \in 1..n : m.calls[i] = a.calls[i]
        /\ m.calls[n + 1] = e
        /\ m.pending = a.pending /\ m.statusBusy = a.statusBusy
        /\ m.connecting = a.connecting
    BY <1>1, Sent
  <1> HIDE DEF e
  <1>4. b = [m EXCEPT !.calls[Len(m.calls)].seen = call.seen]
    BY DEF Again, op, section, step
  <1> HIDE DEF m
  <1>5. /\ f \in Request /\ f.op = op /\ f.section = section /\ f.step = step
        /\ ~f.got /\ ~f.old /\ f.seen = call.seen
    BY <1>1, <1>2 DEF Request
  <1>6. b = [m EXCEPT !.calls = q]
    BY <1>3, <1>4 DEF AppType
  <1> HIDE DEF f, b, n
  <1>n. n \in Nat /\ n + 1 \in 1..(n + 1) /\ \A i \in 1..n : i \in 1..(n + 1) /\ i # n + 1
    BY <1>1
  <1>m. m.calls \in Seq(Request) /\ Len(m.calls) = n + 1
    BY <1>3 DEF AppType
  <1>7. /\ q \in Seq(Request) /\ Len(q) = n + 1
        /\ \A j \in 1..(n + 1) : q[j] = IF j = n + 1 THEN f ELSE m.calls[j]
    BY <1>5, <1>n, <1>m, ExceptSeq
  <1> HIDE DEF q
  <1>8. b \in AppType /\ b.calls = q /\ b.pending = m.pending /\ b.statusBusy = m.statusBusy
        /\ b.connecting = m.connecting
    BY <1>3, <1>6, <1>7 DEF AppType
  <1>9. b.calls[n + 1] = f /\ Len(b.calls) = n + 1 /\ \A i \in 1..n : b.calls[i] = a.calls[i]
    BY <1>3, <1>7, <1>8, <1>n
  <1> QED BY <1>3, <1>5, <1>8, <1>9 DEF b, n, op, section, step

LEMMA AgainKept ==
    ASSUME NEW a \in AppType, NEW call \in Request, NEW given, CallOk(call, given),
           call.op \in ChangeOps => call.step < Len(Changes[call.op].steps),
           call.op \in ChangeOps \cup {"status"},
           \/ call.op # "status" /\ StatusFits(a)
           \/ /\ call.op = "status" /\ a.statusBusy
              /\ \A i \in 1..Len(a.calls) : a.calls[i].op # "status"
    PROVE  /\ Kept(a, Again(a, call), given)
           /\ \A s : Shower(call, s) => Fixes(Again(a, call), s)
  <1> DEFINE b == Again(a, call)
             n == Len(a.calls)
             c == b.calls[n + 1]
  <1>0. n \in Nat /\ call.step \in Nat
    BY Shape DEF Request
  <1>1. /\ b \in AppType /\ Len(b.calls) = n + 1
        /\ \A i \in 1..n : b.calls[i] = a.calls[i]
        /\ c.op = call.op /\ c.section = call.section /\ c.step = call.step + 1
        /\ c.seen = call.seen /\ ~c.got /\ ~c.old
        /\ b.pending = a.pending /\ b.statusBusy = a.statusBusy
    BY AgainIs
  <1>2. b.calls[n + 1] = c
    OBVIOUS
  <1> HIDE DEF b, c
  <1>3. CallOk(c, given)
    <2>1. ASSUME c.op \in ChangeOps
          PROVE  /\ c.op \in menu.changes /\ c.section = Changes[c.op].section
                 /\ c.step \in 1..Len(Changes[c.op].steps)
      <3>1. Len(Changes[c.op].steps) \in Nat
        BY <2>1, ChangesFine DEF ChangeTyped
      <3>2. /\ call.op \in menu.changes /\ call.section = Changes[call.op].section
            /\ call.step < Len(Changes[call.op].steps)
        BY <1>1, <2>1 DEF CallOk
      <3> QED BY <1>0, <1>1, <3>1, <3>2
    <2>2. c.op \notin ChangeOps \cup {"fetch"} => c.section = "optIn"
      BY <1>1 DEF CallOk
    <2>3. (c.seen \in Consented => given) /\ ~c.got /\ ~c.old
      BY <1>1 DEF CallOk
    <2> QED BY <2>1, <2>2, <2>3 DEF CallOk
  <1>5. \A i \in 1..Len(b.calls) : i \in 1..n \/ i = n + 1
    BY <1>0, <1>1
  <1>6. n <= Len(b.calls) /\ n + 1 \in 1..Len(b.calls) /\ \A i \in 1..n : i \in 1..Len(b.calls) /\ ~(i > n)
    BY <1>0, <1>1
  <1>7. Added(a, b, given)
    <2>1. \A i \in 1..Len(b.calls) : i > n => ~b.calls[i].old /\ CallOk(b.calls[i], given)
      BY <1>1, <1>2, <1>3, <1>5, <1>6
    <2> QED BY <1>1, <1>6, <2>1 DEF Added
  <1>8. StatusFits(b)
    <2>1. CASE call.op # "status" /\ StatusFits(a)
      <3>1. \A i \in 1..Len(b.calls) :
               b.calls[i].op = "status" => i \in 1..n /\ a.calls[i].op = "status"
        BY <1>1, <1>2, <1>5, <2>1
      <3>2. a.statusBusy => \E i \in 1..n : a.calls[i].op = "status"
        BY <2>1 DEF StatusFits
      <3>3. a.statusBusy => \E i \in 1..Len(b.calls) : b.calls[i].op = "status"
        BY <1>1, <1>6, <3>2
      <3> QED BY <1>1, <2>1, <3>1, <3>3 DEF StatusFits
    <2>2. CASE /\ call.op = "status" /\ a.statusBusy
               /\ \A i \in 1..n : a.calls[i].op # "status"
      <3>1. \A i \in 1..Len(b.calls) : b.calls[i].op = "status" <=> i = n + 1
        BY <1>1, <1>2, <1>5, <2>2
      <3>2. b.calls[n + 1].section = "optIn"
        BY <1>1, <1>2, <2>2, ChangesFine DEF CallOk
      <3> QED BY <1>1, <1>6, <2>2, <3>1, <3>2 DEF StatusFits
    <2> QED BY <2>1, <2>2
  <1>9. \A s : Fixes(a, s) => Fixes(b, s)
    <2> SUFFICES ASSUME NEW s, Fixes(a, s)
                 PROVE  Fixes(b, s)
      OBVIOUS
    <2>1. CASE \E i \in 1..n : Shower(a.calls[i], s)
      BY <1>1, <1>6, <2>1 DEF Fixes
    <2> QED BY <1>1, <2>1 DEF Fixes
  <1>10. ASSUME NEW s, Shower(call, s)
         PROVE  Fixes(b, s)
    <2>1. Performed(call) => Performed(c)
      <3> SUFFICES ASSUME Performed(call)
                   PROVE  Performed(c)
        OBVIOUS
      <3>1. PICK k \in 1..call.step : Changes[call.op].steps[k] = "write"
        BY DEF Performed
      <3>2. k \in 1..c.step /\ k < c.step
        BY <1>0, <1>1
      <3>3. c.op \in ChangeOps /\ Changes[c.op].steps[k] = "write"
        BY <1>1, <3>1 DEF Performed
      <3> QED BY <3>2, <3>3 DEF Performed
    <2>2. Shower(c, s)
      BY <1>1, <1>10, <2>1 DEF Shower
    <2> QED BY <1>2, <1>6, <2>2 DEF Fixes
  <1> QED BY <1>1, <1>7, <1>8, <1>9, <1>10 DEF Kept, AppOk, b

-----------------------------------------------------------------------------
(***************************************************************************)
(* The steps.                                                              *)
(***************************************************************************)
\* The panels that a step starts.
OpenedOk == \A tab \in opened' \ opened : consentRequiredFor(consent', tab) => granted'

LEMMA Assembled ==
    ASSUME Types, menu' = menu, AppOk(app'), CallsOk(app', granted'),
           BehindOk(app', behind', excuse'), consent' \in ConsentState,
           consent'.state \in Consented => granted', fw' \in NotStarted..InSession,
           fw' \in Consented => granted', granted' \in BOOLEAN, behind' \in SUBSET Sections
    PROVE  DetailsInv'
  <1>1. Types'
    BY DEF Types, AppOk
  <1>2. StatusFits(app)'
    BY DEF AppOk, StatusFits
  <1>3. CallsOk(app, granted)'
    BY DEF CallsOk, CallOk
  <1>4. BehindOk(app, behind, excuse)'
    BY DEF BehindOk, OldShow, Fixes, Shows, StepKind
  <1> QED BY <1>1, <1>2, <1>3, <1>4 DEF DetailsInv

\* A step of the requests alone.
LEMMA Quietly ==
    ASSUME DetailsInv, Kept(app, app', granted),
           UNCHANGED <<menu, consent, fw, granted, behind, excuse, opened>>
    PROVE  DetailsInv' /\ OpenedOk
  <1>1. app \in AppType /\ CallsOk(app, granted) /\ BehindOk(app, behind, excuse) /\ Types
    BY DEF DetailsInv, Types
  <1>2. AppOk(app') /\ CallsOk(app', granted) /\ BehindOk(app', behind, excuse)
    BY <1>1, KeptOk
  <1>3. DetailsInv'
    BY <1>1, <1>2, Assembled DEF DetailsInv, Types
  <1> QED BY <1>3 DEF OpenedOk

\* A step of the consent round and the requests.
LEMMA Roundly ==
    ASSUME DetailsInv, NEW a, Kept(app, a, granted), NEW x, Honest(x, granted), Apply(x, a),
           UNCHANGED <<menu, fw, granted, behind, excuse>>
    PROVE  DetailsInv' /\ OpenedOk
  <1>1. app \in AppType /\ CallsOk(app, granted) /\ BehindOk(app, behind, excuse) /\ Types
    BY DEF DetailsInv, Types
  <1>2. AppOk(a)
    BY DEF Kept
  <1>3. /\ More(a, app') /\ consent' \in ConsentState
        /\ consent'.state \in Consented => granted
        /\ \A tab \in opened' \ opened : consentRequiredFor(consent', tab) => granted
    BY <1>2, Applied
  <1>4. Kept(app, app', granted)
    BY <1>1, <1>2, <1>3, MoreKept, KeptTwice
  <1>5. AppOk(app') /\ CallsOk(app', granted) /\ BehindOk(app', behind, excuse)
    BY <1>1, <1>4, KeptOk
  <1>6. DetailsInv'
    BY <1>1, <1>3, <1>5, Assembled DEF DetailsInv, Types
  <1> QED BY <1>3, <1>6 DEF OpenedOk

LEMMA InvParts ==
    ASSUME DetailsInv
    PROVE  /\ Types /\ AppOk(app) /\ app \in AppType /\ CallsOk(app, granted)
           /\ BehindOk(app, behind, excuse) /\ Kept(app, app, granted)
           /\ granted \in BOOLEAN /\ consent \in ConsentState
           /\ (consent.state \in Consented => granted) /\ menu \in MenuType
  <1>1. AppOk(app) /\ app \in AppType
    BY DEF DetailsInv, Types, AppOk
  <1>2. Kept(app, app, granted)
    BY <1>1, Touched
  <1> QED BY <1>1, <1>2 DEF DetailsInv, Types

LEMMA AskReadStep ==
    ASSUME DetailsInv, NEW r \in menu.reads, AskRead(r)
    PROVE  DetailsInv' /\ OpenedOk
  <1>1. r \in ReadNames
    BY InvParts DEF MenuType, ReadNames
  <1>2. More(app, Refresh(app, r))
    BY <1>1, InvParts, Refreshed
  <1>3. Kept(app, app', granted)
    BY <1>2, InvParts, MoreKept DEF AskRead
  <1> QED BY <1>3, Quietly DEF AskRead

LEMMA ChangesTyped ==
    ASSUME NEW w \in ChangeOps
    PROVE  /\ w \in Ops /\ w # "status" /\ w # "sendOptInCode" /\ Changes[w].section \in Sections
           /\ Changes[w].gate \in Bits /\ Len(Changes[w].steps) \in Nat
           /\ Len(Changes[w].steps) > 0 /\ Changes[w].read \in ReadNames
  BY ChangesFine DEF Ops, Sections, Bits, ChangeTyped, ChangeOps

LEMMA AskChangeStep ==
    ASSUME DetailsInv, NEW w \in menu.changes, AskChange(w)
    PROVE  DetailsInv' /\ OpenedOk
  <1>1. w \in ChangeOps
    BY InvParts DEF MenuType, ChangeOps
  <1>2. CASE Changes[w].gate # "none" /\ app.connecting
    <2>1. app' = Defer(app, Changes[w].gate)
      BY <1>2 DEF AskChange
    <2>2. More(app, app')
      BY <1>1, <1>2, <2>1, InvParts, ChangesTyped, Deferred DEF More
    <2>3. Kept(app, app', granted)
      BY <2>2, InvParts, MoreKept
    <2> QED BY <2>3, Quietly DEF AskChange
  <1>3. CASE ~(Changes[w].gate # "none" /\ app.connecting)
    <2> DEFINE section == Changes[w].section
               c == NewRequest(app, w, section, 1)
    <2>1. app' = Send(app, w, section, 1)
      BY <1>3 DEF AskChange
    <2>2. w \in Ops /\ w # "status" /\ w # "sendOptInCode" /\ section \in Sections
          /\ 1 \in 1..Len(Changes[w].steps)
      BY <1>1, ChangesTyped
    <2>3. section = Changes[w].section
      OBVIOUS
    <2> HIDE DEF section
    <2>4. c.op = w /\ c.section = section /\ c.step = 1 /\ ~c.got /\ ~c.old /\ c.seen = 0
      BY <2>2, RequestMade
    <2> HIDE DEF c
    <2>5. CallOk(c, granted)
      BY <1>1, <2>2, <2>3, <2>4 DEF CallOk, Consented, Received, InSession
    <2>6. Kept(app, app', granted)
      BY <2>1, <2>2, <2>5, InvParts, SentKept DEF c
    <2> QED BY <2>6, Quietly DEF AskChange
  <1> QED BY <1>2, <1>3

LEMMA TrustStep ==
    ASSUME DetailsInv, TrustPendingCert
    PROVE  DetailsInv' /\ OpenedOk
  <1> DEFINE r == IF app.resume = "none" THEN "refreshOverview" ELSE app.resume
             b == [app EXCEPT !.resume = "none"]
  <1>1. r \in ReadNames
    BY InvParts, ReadsAre DEF ReadNames, AppType
  <1>2. b \in AppType /\ b.calls = app.calls /\ b.statusBusy = app.statusBusy
        /\ b.pending = app.pending
    BY InvParts DEF AppType
  <1>3. app' = Refresh(b, r)
    BY DEF TrustPendingCert
  <1> HIDE DEF r, b
  <1>4. AppOk(b) /\ Kept(app, b, granted)
    BY <1>2, InvParts, Touched
  <1>5. Kept(b, app', granted)
    BY <1>1, <1>3, <1>4, Refreshed, MoreKept
  <1>6. Kept(app, app', granted)
    BY <1>4, <1>5, InvParts, KeptTwice
  <1> QED BY <1>6, Quietly DEF TrustPendingCert

\* The prompt rejected, and the tunnel's steps up to the end of its connection.
LEMMA TouchSteps ==
    ASSUME DetailsInv, Close \/ SshOn \/ SshOff \/ SshPrompt \/ TrustPendingSshHostKey
    PROVE  DetailsInv' /\ OpenedOk
  <1>0. app \in AppType
    BY InvParts
  <1>1. /\ app' \in AppType /\ app'.calls = app.calls /\ app'.statusBusy = app.statusBusy
        /\ app'.pending = app.pending
    <2>1. CASE Close
      BY <1>0, <2>1 DEF Close, AppType
    <2>2. CASE SshOn
      BY <1>0, <2>2 DEF SshOn, AppType
    <2>3. CASE SshOff
      BY <1>0, <2>3 DEF SshOff, AppType
    <2>4. CASE SshPrompt
      BY <1>0, <2>4 DEF SshPrompt, AppType
    <2>5. CASE TrustPendingSshHostKey
      BY <1>0, <2>5 DEF TrustPendingSshHostKey, AppType
    <2> QED BY <2>1, <2>2, <2>3, <2>4, <2>5
  <1>2. Kept(app, app', granted)
    BY <1>1, InvParts, Touched
  <1>3. UNCHANGED <<menu, consent, fw, granted, behind, excuse, opened>>
    BY DEF Close, SshOn, SshOff, SshPrompt, TrustPendingSshHostKey, SshUnchanged
  <1> QED BY <1>2, <1>3, Quietly

\* The tunnel is up: what waited is sent.
LEMMA ConnectedKept ==
    ASSUME NEW a, AppOk(a), NEW given
    PROVE  Kept(a, Connected(a), given)
  <1> DEFINE b == [a EXCEPT !.connecting = FALSE]
  <1>1. b \in AppType /\ b.calls = a.calls /\ b.statusBusy = a.statusBusy
        /\ b.pending = a.pending /\ b.connecting = FALSE
    BY DEF AppOk, AppType
  <1>2. Connected(a) = RunPending(b)
    BY DEF Connected
  <1> HIDE DEF b
  <1>3. AppOk(b) /\ Kept(a, b, given)
    BY <1>1, Touched
  <1>4. Kept(b, RunPending(b), given)
    BY <1>1, <1>3, RanKept
  <1>5. a \in AppType
    BY DEF AppOk
  <1> QED BY <1>2, <1>3, <1>4, <1>5, KeptTwice

LEMMA SshConnectedStep ==
    ASSUME DetailsInv, SshConnected
    PROVE  DetailsInv' /\ OpenedOk
  <1> DEFINE b == [app EXCEPT !.ssh = "connected"]
  <1>1. b \in AppType /\ b.calls = app.calls /\ b.statusBusy = app.statusBusy
        /\ b.pending = app.pending
    BY InvParts DEF AppType
  <1>2. app' = Connected(b)
    BY DEF SshConnected
  <1> HIDE DEF b
  <1>3. AppOk(b) /\ Kept(app, b, granted)
    BY <1>1, InvParts, Touched
  <1>4. Kept(b, app', granted)
    BY <1>2, <1>3, ConnectedKept
  <1>5. Kept(app, app', granted)
    BY <1>3, <1>4, InvParts, KeptTwice
  <1> QED BY <1>5, Quietly DEF SshConnected, SshUnchanged

\* The tunnel has failed: what waited is dropped, and that excuses what it would have read.
LEMMA DroppedStep ==
    ASSUME DetailsInv, app' \in AppType, app'.calls = app.calls,
           app'.statusBusy = app.statusBusy, app'.pending = {},
           excuse' = excuse \cup DroppedSections,
           UNCHANGED <<menu, consent, fw, granted, behind, opened>>
    PROVE  DetailsInv' /\ OpenedOk
  <1>1. AppOk(app') /\ CallsOk(app', granted)
    BY InvParts, Touched DEF CallsOk
  <1>2. \A s : OldShow(app', s) => s \in excuse'
    BY InvParts DEF BehindOk, OldShow
  <1>3. ASSUME NEW s \in behind
        PROVE  s \in excuse' \/ Fixes(app', s)
    <2>1. s \in Sections /\ (s \in excuse \/ Fixes(app, s))
      BY InvParts DEF Types, BehindOk
    <2>2. CASE \E i \in 1..Len(app.calls) : Shower(app.calls[i], s)
      BY <2>2 DEF Fixes
    <2>3. CASE \E r \in DOMAIN Reads : Reads[r].bit \in app.pending /\ Fetches(r, s)
      <3>1. PICK r \in DOMAIN Reads : Reads[r].bit \in app.pending /\ Fetches(r, s)
        BY <2>3
      <3>2. PICK S : Reads[r].sections \in Seq(S)
        BY ReadsFine DEF ReadFine
      <3>3. DOMAIN Reads[r].sections = 1..Len(Reads[r].sections)
        BY <3>2
      <3>4. s \in Range(Reads[r].sections)
        BY <3>1, <3>3 DEF Fetches, Range
      <3> QED BY <2>1, <3>1, <3>4 DEF DroppedSections
    <2> QED BY <2>1, <2>2, <2>3 DEF Fixes
  <1>4. BehindOk(app', behind', excuse')
    BY <1>2, <1>3 DEF BehindOk
  <1>5. DetailsInv'
    BY <1>1, <1>4, InvParts, Assembled DEF DetailsInv, Types
  <1> QED BY <1>5 DEF OpenedOk

LEMMA SshFailedStep ==
    ASSUME DetailsInv, SshFailed
    PROVE  DetailsInv' /\ OpenedOk
  <1>1. /\ app' \in AppType /\ app'.calls = app.calls /\ app'.statusBusy = app.statusBusy
        /\ app'.pending = {}
    BY InvParts DEF SshFailed, Dropped, AppType
  <1> QED BY <1>1, DroppedStep DEF SshFailed, SshUnchanged

LEMMA SshLateStep ==
    ASSUME DetailsInv, SshLate
    PROVE  DetailsInv' /\ OpenedOk
  <1>0. UNCHANGED <<menu, consent, fw, granted, behind, opened>>
    BY DEF SshLate, SshUnchanged
  <1>1. CASE app' = Connected(app) /\ excuse' = excuse
    <2>1. Kept(app, app', granted)
      BY <1>1, InvParts, ConnectedKept
    <2> QED BY <1>0, <1>1, <2>1, Quietly
  <1>2. CASE app' = Dropped(app) /\ excuse' = excuse \cup DroppedSections
    <2>1. /\ app' \in AppType /\ app'.calls = app.calls /\ app'.statusBusy = app.statusBusy
          /\ app'.pending = {}
      BY <1>2, InvParts DEF Dropped, AppType
    <2> QED BY <1>0, <1>2, <2>1, DroppedStep
  <1>3. CASE UNCHANGED <<app, excuse>>
    BY <1>0, <1>3, InvParts, Quietly
  <1> QED BY <1>1, <1>2, <1>3 DEF SshLate

LEMMA ConnectStep ==
    ASSUME DetailsInv, NEW tab \in menu.tabs, Connect(tab)
    PROVE  DetailsInv' /\ OpenedOk
  <1> DEFINE a == IF consent.known THEN app ELSE StatusRefresh(app)
  <1>1. tab \in Tabs
    BY InvParts DEF MenuType
  <1>2. Kept(app, a, granted)
    <2>1. More(app, StatusRefresh(app))
      BY InvParts, StatusRefreshed DEF More
    <2>2. Kept(app, StatusRefresh(app), granted)
      BY <2>1, InvParts, MoreKept
    <2>3. a \in {app, StatusRefresh(app)}
      OBVIOUS
    <2> HIDE DEF a
    <2> QED BY <2>2, <2>3, InvParts
  <1>3. Apply(RequestConnect(consent, tab), a)
    BY DEF Connect
  <1> HIDE DEF a
  <1>4. Honest(RequestConnect(consent, tab), granted)
    BY <1>1, InvParts, ConnectHonest
  <1> QED BY <1>2, <1>3, <1>4, Roundly DEF Connect

LEMMA SubmitStep ==
    ASSUME DetailsInv, SubmitCode
    PROVE  DetailsInv' /\ OpenedOk
  <1> DEFINE c == NewRequest(app, "sendOptInCode", "optIn", 1)
  <1>1. "sendOptInCode" \in Ops /\ "sendOptInCode" \notin ChangeOps /\ "optIn" \in Sections
    BY ChangesFine, OptInListed DEF Ops
  <1>2. c.op = "sendOptInCode" /\ c.section = "optIn" /\ ~c.got /\ ~c.old /\ c.seen = 0
    BY <1>1, RequestMade
  <1> HIDE DEF c
  <1>3. CallOk(c, granted)
    BY <1>1, <1>2 DEF CallOk, Consented, Received, InSession
  <1>4. Kept(app, app', granted)
    BY <1>1, <1>3, InvParts, SentKept DEF c, SubmitCode
  <1> QED BY <1>4, Quietly DEF SubmitCode

LEMMA EndPromptStep ==
    ASSUME DetailsInv, EndPrompt
    PROVE  DetailsInv' /\ OpenedOk
  <1> DEFINE d == [consent EXCEPT !.prompt = FALSE]
  <1>1. d \in ConsentState /\ d.state = consent.state
    BY InvParts DEF ConsentState
  <1>2. Apply(CancelPrompt(consent), app) \/ Apply(Quiet(d), app)
    BY DEF EndPrompt
  <1> HIDE DEF d
  <1>3. Honest(CancelPrompt(consent), granted) /\ Honest(Quiet(d), granted)
    BY <1>1, InvParts, CancelPromptHonest, QuietHonest
  <1>4. UNCHANGED <<menu, fw, granted, behind, excuse>>
    BY DEF EndPrompt
  <1> QED BY <1>2, <1>3, <1>4, InvParts, Roundly

LEMMA PollStep ==
    ASSUME DetailsInv, PollTick
    PROVE  DetailsInv' /\ OpenedOk
  <1>1. More(app, app')
    BY InvParts, StatusRefreshed DEF More, PollTick
  <1>2. Kept(app, app', granted)
    BY <1>1, InvParts, MoreKept
  <1> QED BY <1>2, Quietly DEF PollTick

LEMMA FirmwareStep ==
    ASSUME DetailsInv, Firmware
    PROVE  DetailsInv' /\ OpenedOk
  <1>1. fw' \in NotStarted..InSession /\ granted' \in BOOLEAN /\ (granted => granted')
        /\ (fw' \in Consented => granted')
    <2>1. fw \in Consented => granted
      BY DEF DetailsInv
    <2>2. granted' = (granted \/ fw' = Received)
      BY DEF Firmware
    <2>3. \/ fw' \in {NotStarted, Displayed, Received}
          \/ fw = Received /\ fw' = InSession
      BY DEF Firmware
    <2>4. granted' \in BOOLEAN /\ (granted => granted')
      BY <2>2
    <2>5. {NotStarted, Displayed, Received, InSession} \subseteq NotStarted..InSession
      BY DEF NotStarted, Displayed, Received, InSession
    <2>6. NotStarted \notin Consented /\ Displayed \notin Consented /\ Received \in Consented
      BY DEF Consented, NotStarted, Displayed, Received, InSession
    <2>7. fw' \in Consented => granted'
      BY <2>1, <2>2, <2>3, <2>6
    <2> QED BY <2>3, <2>4, <2>5, <2>7
  <1>2. UNCHANGED <<menu, app, consent, opened, behind, excuse>>
    BY DEF Firmware
  <1>3. CallsOk(app', granted')
    BY <1>1, <1>2, InvParts DEF CallsOk, CallOk
  <1>4. DetailsInv'
    <2>1. AppOk(app') /\ BehindOk(app', behind', excuse')
      BY <1>2, InvParts
    <2> QED BY <1>1, <1>2, <1>3, <2>1, InvParts, Assembled DEF Types
  <1> QED BY <1>2, <1>4 DEF OpenedOk

(***************************************************************************)
(* The device serves a request: what it writes will be shown.              *)
(***************************************************************************)
LEMMA ServedCalls ==
    ASSUME DetailsInv, NEW i \in 1..Len(app.calls), Serve(i)
    PROVE  LET call == app.calls[i]
               writes == StepKind(call) = "write"
               answered(c) == Shows(c) /\ c.got /\ c.section = call.section
           IN  /\ app' \in AppType /\ Len(app'.calls) = Len(app.calls)
               /\ app'.pending = app.pending /\ app'.statusBusy = app.statusBusy
               /\ app'.calls[i].got
               /\ \A j \in 1..Len(app.calls) :
                     /\ app'.calls[j].op = app.calls[j].op
                     /\ app'.calls[j].section = app.calls[j].section
                     /\ app'.calls[j].step = app.calls[j].step
                     /\ j # i => /\ app'.calls[j].seen = app.calls[j].seen
                                 /\ app'.calls[j].got = app.calls[j].got
                     /\ ~(writes /\ j # i /\ answered(app.calls[j]))
                           => app'.calls[j].old = app.calls[j].old
               /\ app'.calls[i].seen \in {0, fw, call.seen}
  <1> DEFINE q == app.calls
             n == Len(q)
             call == q[i]
             writes == StepKind(call) = "write"
             answered(c) == Shows(c) /\ c.got /\ c.section = call.section
             at(j) == IF j = i THEN [call EXCEPT !.got = TRUE,
                                        !.seen = IF call.op # "status" THEN 0
                                                 ELSE IF call.step = 1 THEN fw ELSE call.seen]
                      ELSE IF writes /\ answered(q[j]) THEN [q[j] EXCEPT !.old = TRUE]
                      ELSE q[j]
             t == [j \in 1..n |-> at(j)]
  <1>1. app \in AppType /\ q \in Seq(Request) /\ DOMAIN q = 1..n /\ n \in Nat
        /\ \A j \in 1..n : q[j] \in Request
    BY InvParts, Shape
  <1>2. app' = [app EXCEPT !.calls = t]
    <2>1. app' = [app EXCEPT !.calls = [j \in DOMAIN app.calls |-> at(j)]]
      BY DEF Serve
    <2> HIDE DEF at
    <2> QED BY <1>1, <2>1
  <1>3. fw \in NotStarted..InSession /\ 0 \in NotStarted..InSession
    BY DEF DetailsInv, Types, NotStarted, InSession
  <1> HIDE DEF q, n, writes, answered
  <1>4. ASSUME NEW j \in 1..n
        PROVE  /\ at(j) \in Request /\ at(j).op = q[j].op /\ at(j).section = q[j].section
               /\ at(j).step = q[j].step
               /\ j # i => at(j).seen = q[j].seen /\ at(j).got = q[j].got
               /\ ~(writes /\ j # i /\ answered(q[j])) => at(j).old = q[j].old
               /\ j = i => at(j).seen \in {0, fw, call.seen} /\ at(j).got
    <2>1. q[j] \in Request
      BY <1>1
    <2>2. CASE j = i
      <3> DEFINE z == IF call.op # "status" THEN 0
                      ELSE IF call.step = 1 THEN fw ELSE call.seen
      <3>1. z \in NotStarted..InSession /\ z \in {0, fw, call.seen}
        BY <1>3, <2>1, <2>2 DEF Request
      <3> HIDE DEF z
      <3>2. at(j) = [q[j] EXCEPT !.got = TRUE, !.seen = z]
        BY <2>1, <2>2 DEF z, Request
      <3> HIDE DEF at
      <3> QED BY <2>1, <2>2, <3>1, <3>2 DEF Request
    <2>3. CASE j # i /\ writes /\ answered(q[j])
      <3>1. at(j) = [q[j] EXCEPT !.old = TRUE]
        BY <2>3
      <3> HIDE DEF at
      <3> QED BY <2>1, <2>3, <3>1 DEF Request
    <2>4. CASE j # i /\ ~(writes /\ answered(q[j]))
      <3>1. at(j) = q[j]
        BY <2>4
      <3> HIDE DEF at
      <3> QED BY <2>1, <2>4, <3>1
    <2> QED BY <2>2, <2>3, <2>4
  <1>5. t \in Seq(Request) /\ Len(t) = n /\ \A j \in 1..n : t[j] = at(j)
    <2> HIDE DEF at
    <2>1. \A j \in 1..n : at(j) \in Request
      BY <1>4
    <2> QED BY <1>1, <2>1
  <1> HIDE DEF t, at
  <1>6. app' \in AppType /\ app'.calls = t /\ app'.pending = app.pending
        /\ app'.statusBusy = app.statusBusy
    BY <1>1, <1>2, <1>5 DEF AppType
  <1>7. i \in 1..n
    BY DEF n, q
  <1>8. \A j \in 1..n :
               /\ app'.calls[j].op = q[j].op
               /\ app'.calls[j].section = q[j].section
               /\ app'.calls[j].step = q[j].step
               /\ j # i => app'.calls[j].seen = q[j].seen /\ app'.calls[j].got = q[j].got
               /\ ~(writes /\ j # i /\ answered(q[j])) => app'.calls[j].old = q[j].old
    BY <1>4, <1>5, <1>6
  <1>9. app'.calls[i].seen \in {0, fw, call.seen} /\ app'.calls[i].got
    BY <1>4, <1>5, <1>6, <1>7
  <1> QED BY <1>5, <1>6, <1>8, <1>9 DEF n, q, writes, answered

LEMMA ServeStep ==
    ASSUME DetailsInv, NEW i \in 1..Len(app.calls), Serve(i)
    PROVE  DetailsInv' /\ OpenedOk
  <1> DEFINE call == app.calls[i]
             writes == StepKind(call) = "write"
             n == Len(app.calls)
             answered(c) == Shows(c) /\ c.got /\ c.section = call.section
             overlaps == \E j \in 1..n : answered(app.calls[j])
             one == {call.section}
  <1>1. /\ app' \in AppType /\ Len(app'.calls) = n
        /\ app'.pending = app.pending /\ app'.statusBusy = app.statusBusy
        /\ app'.calls[i].seen \in {0, fw, call.seen} /\ app'.calls[i].got
    BY ServedCalls
  <1>2. \A j \in 1..n : /\ app'.calls[j].op = app.calls[j].op
                        /\ app'.calls[j].section = app.calls[j].section
                        /\ app'.calls[j].step = app.calls[j].step
    BY ServedCalls
  <1>3. \A j \in 1..n : j # i => /\ app'.calls[j].seen = app.calls[j].seen
                                 /\ app'.calls[j].got = app.calls[j].got
    BY ServedCalls
  <1>4. \A j \in 1..n : ~(writes /\ j # i /\ answered(app.calls[j]))
                           => app'.calls[j].old = app.calls[j].old
    BY ServedCalls
  <1>d. DOMAIN app.calls = 1..n
    BY InvParts, Shape
  <1>5. /\ FirmwareTakes(call.op) /\ granted' = (granted \/ fw' = Received)
        /\ behind' = IF writes THEN behind \cup one ELSE behind
        /\ excuse' = IF ~writes THEN excuse
                     ELSE IF overlaps \/ call.op = "generateKeyPairAndCsr" THEN excuse \cup one
                     ELSE excuse \ one
        /\ UNCHANGED <<menu, consent, opened>>
    BY <1>d DEF Serve
  <1>6. /\ call \in Request /\ CallOk(call, granted) /\ granted \in BOOLEAN
        /\ fw \in NotStarted..InSession /\ (fw \in Consented => granted)
        /\ \A j \in 1..n : CallOk(app.calls[j], granted)
    BY InvParts, Shape DEF CallsOk, DetailsInv, Types
  <1>7. granted' \in BOOLEAN /\ (granted => granted')
    BY <1>5, <1>6
  <1>8. StatusFits(app')
    <2>1. StatusFits(app)
      BY DEF DetailsInv
    <2> QED BY <1>1, <1>2, <2>1 DEF StatusFits
  <1>9. fw' \in NotStarted..InSession /\ (fw' \in Consented => granted')
        /\ (call.op = "sendOptInCode" => granted')
    <2>1. {NotStarted, Requested, Displayed, Received} \subseteq NotStarted..InSession
      BY DEF NotStarted, Requested, Displayed, Received, InSession
    <2>2. NotStarted \notin Consented /\ Displayed \notin Consented /\ Requested \notin Consented
      BY DEF Consented, NotStarted, Displayed, Requested, Received, InSession
    <2>3. \/ call.op = "startOptIn" /\ fw' \in {Requested, Displayed}
          \/ call.op = "sendOptInCode" /\ fw' = Received
          \/ call.op = "cancelOptIn" /\ fw' = NotStarted
          \/ call.op # "sendOptInCode" /\ fw' = fw
      BY <1>5 DEF FirmwareTakes
    <2> HIDE DEF call
    <2> QED BY <1>5, <1>6, <1>7, <2>1, <2>2, <2>3
  <1>10. CallsOk(app', granted')
    <2> SUFFICES ASSUME NEW j \in 1..n
                 PROVE  CallOk(app'.calls[j], granted')
      BY <1>1 DEF CallsOk
    <2> DEFINE c == app'.calls[j]
               d == app.calls[j]
    <2>1. CallOk(d, granted) /\ c.op = d.op /\ c.section = d.section /\ c.step = d.step
      BY <1>2, <1>6
    <2>2. c.seen \in Consented => granted'
      <3>1. CASE j # i
        BY <1>3, <1>6, <1>7, <3>1 DEF CallOk
      <3>2. CASE j = i
        <4>1. 0 \notin Consented
          BY DEF Consented, Received, InSession
        <4>2. call.seen \in Consented => granted
          BY <1>6 DEF CallOk
        <4> QED BY <1>1, <1>6, <1>7, <3>2, <4>1, <4>2
      <3> QED BY <3>1, <3>2
    <2>3. c.op = "sendOptInCode" /\ c.got => granted'
      <3>1. CASE j # i
        <4>1. c.got = d.got
          BY <1>3, <3>1
        <4>2. d.op = "sendOptInCode" /\ d.got => granted
          BY <2>1 DEF CallOk
        <4> QED BY <1>7, <2>1, <4>1, <4>2
      <3>2. CASE j = i
        BY <1>2, <1>9, <3>2
      <3> QED BY <3>1, <3>2
    <2>4. c.old => c.got
      <3>1. CASE j = i
        BY <1>1, <3>1
      <3>2. CASE j # i /\ answered(d)
        BY <1>3, <3>2
      <3>3. CASE j # i /\ ~answered(d)
        BY <1>3, <1>4, <2>1, <3>3 DEF CallOk
      <3> QED BY <3>1, <3>2, <3>3
    <2> HIDE DEF c, d
    <2>5. CallOk(c, granted')
      BY <2>1, <2>2, <2>3, <2>4 DEF CallOk
    <2> QED BY <2>5 DEF c
  <1>s. \A j \in 1..n : Shows(app'.calls[j]) <=> Shows(app.calls[j])
    BY <1>2 DEF Shows, OnlyReads, StepKind
  <1>11. \A s : Fixes(app, s) => Fixes(app', s)
    <2>1. ASSUME NEW j \in 1..n, Performed(app.calls[j])
          PROVE  Performed(app'.calls[j])
      <3>1. app.calls[j].got => app'.calls[j].got
        BY <1>1, <1>3
      <3> HIDE DEF n
      <3> QED BY <1>2, <2>1, <3>1 DEF Performed
    <2>2. ASSUME NEW j \in 1..n, NEW s, Shower(app.calls[j], s)
          PROVE  Shower(app'.calls[j], s)
      BY <1>2, <2>1, <2>2 DEF Shower
    <2> QED BY <1>1, <2>2 DEF Fixes
  <1>12. ASSUME writes, call.op # "generateKeyPairAndCsr"
         PROVE  Fixes(app', call.section)
    <2>1. call.op \in ChangeOps
      <3>1. call.op \in Ops
        BY <1>6 DEF Request
      <3>2. call.op \notin ChangeOps => call.op = "write"
        BY <1>12 DEF StepKind
      <3>3. "write" \notin {"fetch", "status", "startOptIn", "sendOptInCode", "cancelOptIn"}
        OBVIOUS
      <3> HIDE DEF call
      <3> QED BY <3>1, <3>2, <3>3 DEF Ops
    <2> DEFINE w == Changes[call.op]
    <2>2. /\ call.section = w.section
          /\ call.step \in 1..Len(w.steps) /\ w.steps[call.step] = "write"
      BY <1>6, <1>12, <2>1 DEF CallOk, StepKind
    <2>3. Mends(w) /\ Len(w.steps) \in Nat
      BY <1>12, <2>1, <2>2, ChangesFine, ChangesTyped DEF ChangeFine
    <2>4. Shower(app'.calls[i], call.section)
      <3> DEFINE c == app'.calls[i]
      <3>1. c.op = call.op /\ c.section = call.section /\ c.step = call.step /\ c.got
        BY <1>1, <1>2
      <3> HIDE DEF c
      <3>2. call.step \in 1..call.step
        <4> HIDE DEF w
        <4> QED BY <2>2, <2>3
      <3>3. Performed(c)
        BY <2>1, <2>2, <3>1, <3>2 DEF Performed
      <3>4. \/ w.reread \in {"success", "last", "always"} /\ Fetches(w.read, w.section)
            \/ w.reread = "never" /\ w.steps[Len(w.steps)] = "show"
        BY <2>2, <2>3 DEF Mends
      <3> QED BY <2>2, <3>1, <3>3, <3>4 DEF Shower, c
    <2> QED BY <1>1, <2>4 DEF Fixes
  <1>o. ASSUME NEW s, OldShow(app', s)
        PROVE  s \in excuse'
    <2>1. PICK j \in 1..n : /\ Shows(app'.calls[j]) /\ app'.calls[j].old
                            /\ app'.calls[j].section = s
      BY <1>1, <1>o DEF OldShow
    <2>2. Shows(app.calls[j]) /\ app.calls[j].section = s
      BY <1>2, <1>s, <2>1
    <2>3. app.calls[j].old => s \in excuse /\ app.calls[j].got
      <3>1. app.calls[j].old => OldShow(app, s)
        BY <2>2 DEF OldShow
      <3>2. app.calls[j].old => app.calls[j].got
        BY <1>6 DEF CallOk
      <3> QED BY <3>1, <3>2, InvParts DEF BehindOk
    <2>4. CASE writes /\ s = call.section
      <3>1. app.calls[j].got
        BY <1>3, <1>4, <2>1, <2>3, <2>4 DEF Shows, OnlyReads
      <3>2. overlaps
        BY <2>2, <2>4, <3>1
      <3> HIDE DEF overlaps, writes
      <3> QED BY <1>5, <2>4, <3>2
    <2>5. CASE ~(writes /\ s = call.section)
      <3>1. app'.calls[j].old = app.calls[j].old
        BY <1>4, <2>2, <2>5
      <3>2. s \in excuse
        BY <2>1, <2>3, <3>1
      <3> HIDE DEF overlaps, writes
      <3> QED BY <1>5, <2>5, <3>2
    <2> QED BY <2>4, <2>5
  <1>13. BehindOk(app', behind', excuse')
    <2> SUFFICES ASSUME NEW s \in behind'
                 PROVE  s \in excuse' \/ Fixes(app', s)
      BY <1>o DEF BehindOk
    <2>1. CASE writes /\ s = call.section
      <3>1. call.op = "generateKeyPairAndCsr" => s \in excuse'
        <4> HIDE DEF overlaps, writes
        <4> QED BY <1>5, <2>1
      <3> QED BY <1>12, <2>1, <3>1
    <2>2. CASE ~(writes /\ s = call.section)
      <3> HIDE DEF overlaps, writes
      <3>1. s \in behind /\ (s \in excuse => s \in excuse')
        BY <1>5, <2>2
      <3>2. s \in excuse \/ Fixes(app, s)
        BY <3>1, InvParts DEF BehindOk
      <3> QED BY <1>11, <3>1, <3>2
    <2> QED BY <2>1, <2>2
  <1>14. behind' \in SUBSET Sections
    BY <1>5, <1>6, InvParts DEF Types, Request
  <1>15. DetailsInv'
    <2>1. AppOk(app') /\ consent' \in ConsentState /\ (consent'.state \in Consented => granted')
      BY <1>1, <1>5, <1>7, <1>8, InvParts DEF AppOk
    <2> QED BY <1>5, <1>7, <1>9, <1>10, <1>13, <1>14, <2>1, InvParts, Assembled
  <1> QED BY <1>5, <1>15 DEF OpenedOk

(***************************************************************************)
(* A callback runs: what it does not show itself, it leaves to others or   *)
(* to the read it ends with.                                               *)
(***************************************************************************)
\* The section that what follows the request has to read: a change or a status read goes on,
\* or the change ends with its refresh.
Goes(call, ok) ==
    /\ ok
    /\ \/ call.op \in ChangeOps /\ call.step # Len(Changes[call.op].steps)
       \/ call.op = "status" /\ call.step = 1

Owed(call, s, ok) ==
    \/ Goes(call, ok) /\ Shower(call, s)
    \/ /\ call.op \in ChangeOps /\ ~Goes(call, ok)
       /\ Rereads(Changes[call.op], call.step = Len(Changes[call.op].steps), ok)
       /\ Fetches(Changes[call.op].read, s)

LEMMA Accounted ==
    ASSUME DetailsInv, NEW i \in 1..Len(app.calls), NEW ok \in BOOLEAN,
           Account(app.calls[i], ok), NEW s \in behind', s \notin excuse'
    PROVE  Fixes(Without(app, i), s) \/ Owed(app.calls[i], s, ok)
  <1> DEFINE call == app.calls[i]
             a == Without(app, i)
             w == Changes[call.op]
             last == call.step = Len(w.steps)
             unread == OnlyReads(call) /\ ~ok
             left == Performed(call) /\ ~ok /\ ~Rereads(w, last, ok)
             one == {call.section}
  <1>1. /\ behind' = IF ~(Shows(call) /\ ok) THEN behind
                     ELSE IF call.old THEN behind \cup one
                     ELSE behind \ one
        /\ excuse' = IF unread \/ left THEN excuse \cup one ELSE excuse
    BY DEF Account
  <1>2. Fixes(app, s) => Fixes(a, s) \/ Shower(call, s)
    BY InvParts, RestOk
  <1>3. /\ \A t : OldShow(app, t) => t \in excuse
        /\ \A t \in behind : t \in excuse \/ Fixes(app, t)
    BY InvParts DEF BehindOk
  <1>4. Shows(call) /\ call.old => call.section \in excuse
    BY <1>3 DEF OldShow
  <1> HIDE DEF a, unread, left, one, call
  <1>5. s \notin excuse
    BY <1>1
  <1>6. s \in behind /\ (Shows(call) /\ ok => s # call.section)
    BY <1>1, <1>4, <1>5 DEF one
  <1>7. Fixes(a, s) \/ Shower(call, s)
    BY <1>2, <1>3, <1>5, <1>6
  <1>8. ASSUME Shower(call, s)
        PROVE  Owed(call, s, ok)
    <2>1. s = call.section
      BY <1>8 DEF Shower
    <2>2. ~unread /\ ~left
      BY <1>1, <2>1 DEF one
    <2>3. ~(Shows(call) /\ ok)
      BY <1>6, <2>1
    <2>4. CASE call.op = "fetch"
      <3>1. OnlyReads(call) /\ Shows(call)
        BY <2>4, ChangesFine DEF Shows, OnlyReads, StepKind
      <3> QED BY <2>2, <2>3, <3>1 DEF unread
    <2>5. CASE call.op = "status"
      <3>1. OnlyReads(call) /\ (call.step # 1 => Shows(call))
        BY <2>5, ChangesFine DEF Shows, OnlyReads, StepKind
      <3>2. ok /\ call.step = 1
        BY <2>2, <2>3, <3>1 DEF unread
      <3> QED BY <1>8, <2>5, <3>2 DEF Owed, Goes
    <2>6. CASE call.op \notin {"fetch", "status"}
      <3>1. Performed(call) /\ call.op \in ChangeOps
        BY <1>8, <2>6 DEF Shower, Performed
      <3>2. ok \/ Rereads(w, last, ok)
        BY <2>2, <3>1 DEF left
      <3>3. \/ w.reread \in {"success", "last", "always"} /\ Fetches(w.read, s)
            \/ w.reread = "never" /\ w.steps[Len(w.steps)] = "show"
        BY <1>8, <2>6 DEF Shower
      <3>4. CASE ok /\ ~last
        BY <1>8, <3>1, <3>4 DEF Owed, Goes
      <3>5. CASE ~(ok /\ ~last)
        <4>1. ~Goes(call, ok)
          BY <2>6, <3>5 DEF Goes
        <4>2. Rereads(w, last, ok) \/ (ok /\ w.reread = "never")
          BY <3>2, <3>3, <3>5 DEF Rereads
        <4>3. ~(ok /\ w.reread = "never")
          <5>1. ok /\ w.reread = "never" => StepKind(call) = "show"
            BY <3>1, <3>3, <3>5 DEF StepKind
          <5> QED BY <2>3, <2>6, <5>1 DEF Shows, OnlyReads
        <4>4. w.reread # "never"
          BY <4>2, <4>3 DEF Rereads
        <4> QED BY <3>1, <3>3, <4>1, <4>2, <4>3, <4>4 DEF Owed
      <3> QED BY <3>4, <3>5
    <2> QED BY <2>4, <2>5, <2>6
  <1> QED BY <1>7, <1>8 DEF a, call

\* What the callback of a request leaves behind.
Replied(a, call, ok) ==
    /\ Kept(a, app', granted) /\ \A s : Owed(call, s, ok) => Fixes(app', s)
    /\ consent' \in ConsentState /\ (consent'.state \in Consented => granted)
    /\ \A tab \in opened' \ opened : consentRequiredFor(consent', tab) => granted

LEMMA ApplyReplied ==
    ASSUME NEW a \in AppType, NEW b, Kept(a, b, granted), NEW x, Honest(x, granted), Apply(x, b),
           NEW call, NEW ok, \A s : Owed(call, s, ok) => Fixes(b, s)
    PROVE  Replied(a, call, ok)
  <1>1. AppOk(b)
    BY DEF Kept
  <1>2. /\ More(b, app') /\ consent' \in ConsentState
        /\ consent'.state \in Consented => granted
        /\ \A tab \in opened' \ opened : consentRequiredFor(consent', tab) => granted
    BY <1>1, Applied
  <1>3. Kept(b, app', granted)
    BY <1>1, <1>2, MoreKept
  <1>4. Kept(a, app', granted)
    BY <1>3, KeptTwice
  <1>5. \A s : Owed(call, s, ok) => Fixes(app', s)
    BY <1>3 DEF Kept
  <1> QED BY <1>2, <1>4, <1>5 DEF Replied

LEMMA ChangeReplied ==
    ASSUME DetailsInv, NEW a, AppOk(a), NEW call \in Request, CallOk(call, granted),
           call.op \in ChangeOps, NEW ok \in BOOLEAN, ChangeReply(call, a, ok)
    PROVE  Replied(a, call, ok)
  <1> DEFINE w == Changes[call.op]
             last == call.step = Len(w.steps)
             x == IF call.op = "setKvmOptInPolicyEnabled" /\ ok THEN driveConsent(Quiet(consent))
                  ELSE Quiet(consent)
  <1>1. /\ call.step \in 1..Len(w.steps) /\ Len(w.steps) \in Nat /\ w.read \in ReadNames
        /\ call.op # "status" /\ a \in AppType /\ StatusFits(a)
    BY ChangesTyped DEF CallOk, AppOk
  <1>2. Honest(Quiet(consent), granted)
    BY InvParts, QuietHonest
  <1>3. CASE ok /\ ~last
    <2> DEFINE b == Again(a, call)
    <2>1. Apply(Quiet(consent), b)
      BY <1>3 DEF ChangeReply
    <2>2. call.step < Len(w.steps)
      <3> HIDE DEF w
      <3> QED BY <1>1, <1>3
    <2>3. Kept(a, b, granted) /\ \A s : Shower(call, s) => Fixes(b, s)
      BY <1>1, <2>2, AgainKept
    <2> HIDE DEF b
    <2>4. \A s : Owed(call, s, ok) => Fixes(b, s)
      BY <1>3, <2>3 DEF Owed, Goes
    <2> QED BY <1>1, <1>2, <2>1, <2>3, <2>4, ApplyReplied
  <1>4. CASE ~(ok /\ ~last)
    <2> DEFINE b == SendAll(a, x.send)
    <2>1. /\ consent' = x.c /\ opened' = opened \cup x.dial
          /\ app' = IF Rereads(w, last, ok) THEN Refresh(b, w.read) ELSE b
      BY <1>4 DEF ChangeReply
    <2>2. Honest(x, granted)
      <3>1. Honest(driveConsent(Quiet(consent)), granted)
        BY <1>2, InvParts, DriveHonest
      <3>2. x \in {driveConsent(Quiet(consent)), Quiet(consent)}
        OBVIOUS
      <3> HIDE DEF x
      <3> QED BY <1>2, <3>1, <3>2
    <2> HIDE DEF x
    <2>3. x.send \in Seq({"startOptIn", "cancelOptIn"}) /\ x.c \in ConsentState
      BY <2>2 DEF Honest, XType
    <2>4. More(a, b)
      BY <2>3, RoundSent
    <2> HIDE DEF b
    <2>5. AppOk(b) /\ Kept(a, b, granted)
      BY <2>4, MoreKept DEF More
    <2>6. /\ More(b, Refresh(b, w.read))
          /\ \A s : Covers(w.read, s) => Fixes(Refresh(b, w.read), s)
      BY <1>1, <2>5, Refreshed
    <2>7. Kept(b, Refresh(b, w.read), granted)
      BY <2>5, <2>6, MoreKept
    <2>8. Kept(a, Refresh(b, w.read), granted)
      BY <1>1, <2>5, <2>7, KeptTwice
    <2>9. Kept(a, app', granted)
      BY <2>1, <2>5, <2>8
    <2>10. ASSUME NEW s, Owed(call, s, ok)
           PROVE  Fixes(app', s)
      <3>1. ~Goes(call, ok)
        BY <1>1, <1>4 DEF Goes
      <3>2. Rereads(w, last, ok) /\ Fetches(w.read, s)
        BY <2>10, <3>1 DEF Owed
      <3>3. app' = Refresh(b, w.read)
        BY <2>1, <3>2
      <3>4. Covers(w.read, s)
        BY <3>2 DEF Covers
      <3> QED BY <2>6, <3>3, <3>4
    <2>11. \A tab \in opened' \ opened : consentRequiredFor(consent', tab) => granted
      <3>1. \A tab \in opened' \ opened : tab \in x.dial
        BY <2>1
      <3> QED BY <2>1, <2>2, <3>1 DEF Honest
    <2>12. consent' \in ConsentState /\ (consent'.state \in Consented => granted)
      BY <2>1, <2>2, <2>3 DEF Honest
    <2> QED BY <2>9, <2>10, <2>11, <2>12 DEF Replied
  <1> QED BY <1>3, <1>4

LEMMA StatusReplied ==
    ASSUME DetailsInv, NEW a \in AppType, NEW call \in Request, CallOk(call, granted),
           call.op = "status", a.statusBusy, \A i \in 1..Len(a.calls) : a.calls[i].op # "status",
           StatusFits([a EXCEPT !.statusBusy = FALSE]),
           NEW ok \in BOOLEAN, StatusReply(call, a, ok)
    PROVE  Replied(a, call, ok)
  <1> DEFINE b == [a EXCEPT !.statusBusy = FALSE]
  <1>1. /\ call.op \notin ChangeOps
        /\ \A s : Owed(call, s, ok) => call.step = 1 /\ ok /\ Shower(call, s)
    BY ChangesFine DEF Owed, Goes
  <1>2. Kept(a, b, granted)
    <2>1. b \in AppType /\ b.calls = a.calls /\ b.pending = a.pending
      BY DEF AppType
    <2>2. StatusFits(b) /\ Len(a.calls) \in Nat
      BY Shape
    <2> HIDE DEF b
    <2>3. Added(a, b, granted)
      BY <2>1, <2>2 DEF Added
    <2>4. \A s : Fixes(a, s) => Fixes(b, s)
      BY <2>1 DEF Fixes
    <2> QED BY <2>1, <2>2, <2>3, <2>4 DEF Kept, AppOk
  <1>3. Kept(a, Again(a, call), granted) /\ \A s : Shower(call, s) => Fixes(Again(a, call), s)
    BY <1>1, AgainKept
  <1>4. \/ Apply(Quiet(consent), Again(a, call))
        \/ ~(call.step = 1 /\ ok) /\ Apply(StatusUnreadable(consent), b)
        \/ ~(call.step = 1 /\ ok) /\ Apply(StatusRead(consent, menu.raw, call.seen), b)
    BY DEF StatusReply
  <1> HIDE DEF b
  <1>5. Honest(Quiet(consent), granted) /\ Honest(StatusUnreadable(consent), granted)
    BY InvParts, QuietHonest, UnreadableHonest
  <1>6. Honest(StatusRead(consent, menu.raw, call.seen), granted)
    <2>1. /\ menu.raw \in {"none", "kvm", "all"} /\ call.seen \in NotStarted..InSession
          /\ (call.seen \in Consented => granted)
      BY InvParts DEF MenuType, Request, CallOk
    <2> QED BY <2>1, InvParts, StatusReadHonest
  <1>7. CASE Apply(Quiet(consent), Again(a, call))
    BY <1>1, <1>3, <1>5, <1>7, ApplyReplied
  <1>8. CASE ~(call.step = 1 /\ ok) /\ Apply(StatusUnreadable(consent), b)
    BY <1>1, <1>2, <1>5, <1>8, ApplyReplied
  <1>9. CASE ~(call.step = 1 /\ ok) /\ Apply(StatusRead(consent, menu.raw, call.seen), b)
    BY <1>1, <1>2, <1>6, <1>9, ApplyReplied
  <1> QED BY <1>4, <1>7, <1>8, <1>9

LEMMA OtherReplied ==
    ASSUME DetailsInv, NEW a, AppOk(a), NEW call \in Request, CallOk(call, granted),
           call.op \notin ChangeOps, call.op # "status", NEW ok \in BOOLEAN, ok => call.got,
           Reply(call, a, ok)
    PROVE  Replied(a, call, ok)
  <1>1. \A s : ~Owed(call, s, ok)
    BY DEF Owed, Goes
  <1>2. a \in AppType /\ Kept(a, a, granted)
    BY Touched DEF AppOk
  <1>3. \/ call.op = "startOptIn" /\ Apply(StartReply(consent, ok), a)
        \/ call.op = "sendOptInCode" /\ Apply(SendReply(consent, ok), a)
        \/ call.op = "cancelOptIn" /\ Apply(CancelReply(consent), a)
        \/ call.op = "fetch" /\ Apply(Quiet(consent), a)
    BY DEF Reply
  <1>4. CASE Apply(StartReply(consent, ok), a)
    <2>1. Honest(StartReply(consent, ok), granted)
      BY InvParts, StartReplyHonest
    <2> QED BY <1>1, <1>2, <1>4, <2>1, ApplyReplied
  <1>5. CASE call.op = "sendOptInCode" /\ Apply(SendReply(consent, ok), a)
    <2>1. ok => granted
      BY <1>5 DEF CallOk
    <2>2. Honest(SendReply(consent, ok), granted)
      BY <2>1, InvParts, SendReplyHonest
    <2> QED BY <1>1, <1>2, <1>5, <2>2, ApplyReplied
  <1>6. CASE Apply(CancelReply(consent), a)
    <2>1. Honest(CancelReply(consent), granted)
      BY InvParts, CancelReplyHonest
    <2> QED BY <1>1, <1>2, <1>6, <2>1, ApplyReplied
  <1>7. CASE Apply(Quiet(consent), a)
    <2>1. Honest(Quiet(consent), granted)
      BY InvParts, QuietHonest
    <2> QED BY <1>1, <1>2, <1>7, <2>1, ApplyReplied
  <1> QED BY <1>3, <1>4, <1>5, <1>6, <1>7

LEMMA DeliverStep ==
    ASSUME DetailsInv, NEW i \in 1..Len(app.calls), NEW ok \in BOOLEAN, Deliver(i, ok)
    PROVE  DetailsInv' /\ OpenedOk
  <1> DEFINE call == app.calls[i]
             a == Without(app, i)
  <1>1. call \in Request /\ CallOk(call, granted)
    BY InvParts, Shape DEF CallsOk
  <1>2. /\ a \in AppType /\ CallsOk(a, granted)
        /\ (call.op # "status" => StatusFits(a))
        /\ (call.op = "status" =>
              /\ \A j \in 1..Len(a.calls) : a.calls[j].op # "status"
              /\ StatusFits([a EXCEPT !.statusBusy = FALSE])
              /\ a.statusBusy)
    BY InvParts, RestOk
  <1>3. /\ (ok => call.got) /\ Reply(call, a, ok) /\ Account(call, ok)
        /\ UNCHANGED <<menu, fw, granted>>
    BY DEF Deliver
  <1>4. ASSUME NEW s \in behind', s \notin excuse'
        PROVE  Fixes(a, s) \/ Owed(call, s, ok)
    BY <1>3, <1>4, Accounted
  <1>o. \A s : OldShow(a, s) => s \in excuse'
    <2>1. \A s : OldShow(a, s) => OldShow(app, s)
      BY InvParts, RestOk
    <2>2. \A s : OldShow(app, s) => s \in excuse
      BY InvParts DEF BehindOk
    <2>3. excuse' \in {excuse, excuse \cup {call.section}}
      BY <1>3 DEF Account
    <2> HIDE DEF a
    <2> QED BY <2>1, <2>2, <2>3
  <1> HIDE DEF a
  <1>5. Replied(a, call, ok)
    <2> HIDE DEF call
    <2>1. CASE call.op \in ChangeOps
      <3>1. call.op \notin {"fetch", "status", "startOptIn", "sendOptInCode", "cancelOptIn"}
        BY <2>1, ChangesFine
      <3>2. ChangeReply(call, a, ok)
        BY <1>3, <3>1 DEF Reply
      <3>3. AppOk(a)
        BY <1>2, <3>1 DEF AppOk
      <3> QED BY <1>1, <2>1, <3>2, <3>3, ChangeReplied
    <2>2. CASE call.op = "status"
      <3>1. StatusReply(call, a, ok)
        BY <1>3, <2>2, ChangesFine DEF Reply
      <3> QED BY <1>1, <1>2, <2>2, <3>1, StatusReplied
    <2>3. CASE call.op \notin ChangeOps /\ call.op # "status"
      <3>1. AppOk(a)
        BY <1>2, <2>3 DEF AppOk
      <3> QED BY <1>1, <1>3, <2>3, <3>1, OtherReplied
    <2> QED BY <2>1, <2>2, <2>3
  <1>6. /\ AppOk(app') /\ CallsOk(app', granted) /\ \A s : OldShow(app', s) => OldShow(a, s)
    <2>1. Kept(a, app', granted)
      BY <1>5 DEF Replied
    <2> QED BY <1>2, <2>1, KeptOk
  <1>7. BehindOk(app', behind', excuse')
    <2> SUFFICES ASSUME NEW s \in behind', s \notin excuse'
                 PROVE  Fixes(app', s)
      BY <1>o, <1>6 DEF BehindOk
    <2>1. Fixes(a, s) \/ Owed(call, s, ok)
      BY <1>4
    <2> QED BY <1>5, <2>1 DEF Replied, Kept
  <1>8. behind' \in SUBSET Sections
    <2>1. behind \in SUBSET Sections /\ call.section \in Sections
      BY <1>1, InvParts DEF Types, Request
    <2>2. behind' \in {behind, behind \cup {call.section}, behind \ {call.section}}
      BY <1>3 DEF Account
    <2> HIDE DEF call
    <2> QED BY <2>1, <2>2
  <1>9. DetailsInv'
    <2>1. consent' \in ConsentState /\ (consent'.state \in Consented => granted')
      BY <1>3, <1>5 DEF Replied
    <2>2. /\ fw' \in NotStarted..InSession /\ (fw' \in Consented => granted')
          /\ granted' \in BOOLEAN /\ CallsOk(app', granted')
      BY <1>3, <1>6 DEF DetailsInv, Types
    <2> QED BY <1>3, <1>6, <1>7, <1>8, <2>1, <2>2, InvParts, Assembled
  <1> QED BY <1>3, <1>5, <1>9 DEF OpenedOk, Replied

-----------------------------------------------------------------------------
(***************************************************************************)
(* The theorems.                                                           *)
(***************************************************************************)
LEMMA DetailsInit == Init => DetailsInv
  <1> SUFFICES ASSUME Init PROVE DetailsInv
    OBVIOUS
  <1>1. menu \in MenuType
    BY DetailsAssumption DEF Init
  <1>2. <<>> \in Seq(Request) /\ Len(<<>>) = 0
    OBVIOUS
  <1>3. /\ app \in AppType /\ app.calls = <<>> /\ Len(app.calls) = 0
        /\ app.statusBusy = FALSE /\ app.pending = {}
    BY <1>2 DEF Init, AppType
  <1>4. consent \in ConsentState /\ consent.state \notin Consented
    BY DEF Init, ConsentInit, ConsentState, NotStarted, InSession, Consented, Received
  <1>5. fw \in NotStarted..InSession /\ fw \notin Consented
    BY <1>1 DEF Init, MenuType, NotStarted, Displayed, Received, InSession, Consented
  <1>6. granted = FALSE /\ behind = {} /\ excuse = {}
    BY DEF Init
  <1>7. Types
    BY <1>1, <1>3, <1>4, <1>5, <1>6 DEF Types
  <1>8. \A i \in 1..Len(app.calls) : FALSE
    BY <1>3
  <1>9. StatusFits(app)
    BY <1>3, <1>8 DEF StatusFits
  <1>10. CallsOk(app, granted)
    BY <1>8 DEF CallsOk
  <1>11. BehindOk(app, behind, excuse)
    BY <1>6, <1>8 DEF BehindOk, OldShow
  <1> QED BY <1>4, <1>5, <1>7, <1>9, <1>10, <1>11 DEF DetailsInv

LEMMA DetailsNext == DetailsInv /\ [Next]_vars => DetailsInv' /\ OpenedOk
  <1> SUFFICES ASSUME DetailsInv, [Next]_vars PROVE DetailsInv' /\ OpenedOk
    OBVIOUS
  <1>0. DOMAIN app.calls = 1..Len(app.calls)
    BY InvParts, Shape
  <1>1. CASE \E r \in menu.reads : AskRead(r)
    BY <1>1, AskReadStep
  <1>2. CASE \E w \in menu.changes : AskChange(w)
    BY <1>2, AskChangeStep
  <1>3. CASE \E i \in DOMAIN app.calls : Serve(i)
    BY <1>0, <1>3, ServeStep
  <1>4. CASE \E i \in DOMAIN app.calls : \E ok \in BOOLEAN : Deliver(i, ok)
    BY <1>0, <1>4, DeliverStep
  <1>5. CASE TrustPendingCert
    BY <1>5, TrustStep
  <1>6. CASE Close \/ SshOn \/ SshOff \/ SshPrompt \/ TrustPendingSshHostKey
    BY <1>6, TouchSteps
  <1>7. CASE SshConnected
    BY <1>7, SshConnectedStep
  <1>8. CASE SshFailed
    BY <1>8, SshFailedStep
  <1>9. CASE SshLate
    BY <1>9, SshLateStep
  <1>10. CASE \E tab \in menu.tabs : Connect(tab)
    BY <1>10, ConnectStep
  <1>11. CASE SubmitCode
    BY <1>11, SubmitStep
  <1>12. CASE EndPrompt
    BY <1>12, EndPromptStep
  <1>13. CASE PollTick
    BY <1>13, PollStep
  <1>14. CASE Firmware
    BY <1>14, FirmwareStep
  <1>15. CASE UNCHANGED vars
    <2>1. UNCHANGED <<menu, app, consent, fw, granted, behind, excuse, opened>>
      BY <1>15 DEF vars
    <2> QED BY <2>1, InvParts, Quietly
  <1> QED BY <1>1, <1>2, <1>3, <1>4, <1>5, <1>6, <1>7, <1>8, <1>9, <1>10, <1>11, <1>12, <1>13,
             <1>14, <1>15 DEF Next

\* The controller's requests, its gate and the consent round are typed; the flag, the
\* requests under way, the sections behind the device and the consent fit together.
THEOREM DetailsKeepInvariant == Spec => []DetailsInv
  <1>1. DetailsInv /\ [Next]_vars => DetailsInv'
    BY DetailsNext
  <1> QED BY <1>1, DetailsInit, PTL DEF Spec

\* m_optInStatusInFlight is set exactly while one status read is under way.
THEOREM StatusReadAlone == Spec => []OneStatusRead
  <1>1. DetailsInv => OneStatusRead
    <2> SUFFICES ASSUME DetailsInv PROVE OneStatusRead
      OBVIOUS
    <2> DEFINE R == {i \in DOMAIN app.calls : app.calls[i].op = "status"}
    <2>0. DOMAIN app.calls = 1..Len(app.calls) /\ StatusFits(app) /\ app.statusBusy \in BOOLEAN
      BY InvParts, Shape DEF AppOk
    <2>1. CASE ~app.statusBusy
      <3>1. R = {}
        BY <2>0, <2>1 DEF StatusFits
      <3>2. Cardinality(R) = 0
        BY <3>1, FS_EmptySet
      <3> QED BY <2>1, <3>2 DEF OneStatusRead
    <2>2. CASE app.statusBusy
      <3>1. PICK i \in 1..Len(app.calls) : app.calls[i].op = "status"
        BY <2>0, <2>2 DEF StatusFits
      <3>2. R = {i}
        BY <2>0, <3>1 DEF StatusFits
      <3>3. Cardinality(R) = 1
        BY <3>2, FS_Singleton
      <3> QED BY <2>2, <3>3 DEF OneStatusRead
    <2> QED BY <2>0, <2>1, <2>2
  <1> QED BY <1>1, DetailsKeepInvariant, PTL

\* When nothing is under way and nothing waits, every section shows what the device holds
\* since the last change, but for the exceptions that LatestShown names.
THEOREM SectionsShowLatest == Spec => []LatestShown
  <1>1. DetailsInv => LatestShown
    <2> SUFFICES ASSUME DetailsInv, app.calls = <<>>, app.pending = {}, NEW s \in behind
                 PROVE  s \in excuse
      BY DEF LatestShown
    <2>1. Len(app.calls) = 0
      OBVIOUS
    <2>2. ~Fixes(app, s)
      BY <2>1 DEF Fixes
    <2> QED BY <2>2, InvParts DEF BehindOk
  <1> QED BY <1>1, DetailsKeepInvariant, PTL

\* No panel is started against a device known to want consent for its protocol before the
\* user at the target has given it.
THEOREM ConsentComesFirst == Spec => ConsentFirst
  <1> DEFINE Starts == \A tab \in opened' \ opened :
                 consent'.raw = "all" \/ (consent'.raw = "kvm" /\ tab = "kvm") => granted'
  <1>1. DetailsInv /\ [Next]_vars => [Starts]_vars
    BY DetailsNext DEF OpenedOk, consentRequiredFor
  <1>2. ConsentFirst <=> [][Starts]_vars
    BY DEF ConsentFirst
  <1> HIDE DEF Starts
  <1> QED BY <1>1, <1>2, DetailsKeepInvariant, PTL DEF Spec
=============================================================================
