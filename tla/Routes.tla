------------------------------- MODULE Routes -------------------------------
(***************************************************************************)
(* AssignRoutes: the operation behind each path, with the key it needs and *)
(* the validator in front of its handler.                                  *)
(***************************************************************************)
EXTENDS Handlers, TLC

Auth                == Once(<<Allow("Auth")>>)
AuthAdmin           == Once(<<Allow("AuthAdmin")>>)
AuthInstanceOrAdmin == Once(<<Allow("AuthInstanceOrAdmin")>>)

Jid       == Once(<<Number("ValidateJIDFields")>>)
Numbered  == Once(<<Number("ValidateNumberField")>>)
Formatted == Once(<<Number("ValidateNumberFieldWithFormatJid")>>)
Several   == Once(<<Number("ValidateMultipleNumbers")>>)
Card      == Once(<<Number("ValidateContactFields")>>)

\* without a key, and with the global one
ServerRoutes ==
     ("server/ok" :> HandleServerOk)
  @@ ("server/stats" :> AuthAdmin \o HandleStats)

\* /instance, global key
AdminRoutes ==
     ("instance/create" :> AuthAdmin \o HandleCreate)
  @@ ("instance/all" :> AuthAdmin \o HandleAll)
  @@ ("instance/info" :> AuthAdmin \o HandleInfo)
  @@ ("instance/name" :> AuthAdmin \o HandleRename)
  @@ ("instance/delete" :> AuthAdmin \o HandleDelete)
  @@ ("instance/proxy" :> AuthAdmin \o HandleSetProxy)
  @@ ("instance/proxy delete" :> AuthAdmin \o HandleDeleteProxy)
  @@ ("instance/forcereconnect" :> AuthAdmin \o HandleForceReconnect)
  @@ ("instance/logs" :> AuthAdmin \o HandleGetLogs)

\* /instance, key of the instance
InstanceRoutes ==
     ("instance/connect" :> Auth \o HandleConnect)
  @@ ("instance/status" :> Auth \o HandleStatus)
  @@ ("instance/qr" :> Auth \o HandleQr)
  @@ ("instance/pair" :> Auth \o Numbered \o HandlePair)
  @@ ("instance/disconnect" :> Auth \o HandleDisconnect)
  @@ ("instance/reconnect" :> Auth \o HandleReconnect)
  @@ ("instance/logout" :> Auth \o HandleLogout)

\* /instance, either key
SettingsRoutes ==
     ("instance/advanced-settings" :> AuthInstanceOrAdmin \o HandleGetAdvancedSettings)
  @@ ("instance/advanced-settings put" :> AuthInstanceOrAdmin \o HandleUpdateAdvancedSettings)

\* /send
SendRoutes ==
     ("send/text" :> Auth \o Formatted \o HandleSendText)
  @@ ("send/link" :> Auth \o Formatted \o HandleSendLink)
  @@ ("send/media form" :> Auth \o Formatted \o HandleSendMedia)
  @@ ("send/media base64" :> Auth \o Formatted \o HandleSendMediaBase64)
  @@ ("send/media url" :> Auth \o Formatted \o HandleSendMediaUrl)
  @@ ("send/poll" :> Auth \o Formatted \o HandleSendPoll)
  @@ ("send/sticker" :> Auth \o Formatted \o HandleSendSticker)
  @@ ("send/location" :> Auth \o Formatted \o HandleSendLocation)
  @@ ("send/event" :> Auth \o Formatted \o HandleSendEvent)
  @@ ("send/contact" :> Auth \o Card \o HandleSendContact)
  @@ ("send/button" :> Auth \o Formatted \o HandleSendButton)
  @@ ("send/list" :> Auth \o Formatted \o HandleSendList)
  @@ ("send/carousel" :> Auth \o Formatted \o HandleSendCarousel)
  @@ ("send/product" :> Auth \o Formatted \o HandleSendProduct)
  @@ ("send/status/text" :> Auth \o HandleSendStatusText)
  @@ ("send/status/media form" :> Auth \o HandleSendStatusMedia)
  @@ ("send/status/media url" :> Auth \o HandleSendStatusMediaUrl)

\* /user
UserRoutes ==
     ("user/info" :> Auth \o Numbered \o HandleGetUser)
  @@ ("user/check" :> Auth \o Formatted \o HandleCheckUser)
  @@ ("user/avatar" :> Auth \o Numbered \o HandleGetAvatar)
  @@ ("user/contacts" :> Auth \o HandleGetContacts)
  @@ ("user/savecontact" :> Auth \o Numbered \o HandleSaveContact)
  @@ ("user/privacy" :> Auth \o HandleGetPrivacy)
  @@ ("user/privacy post" :> Auth \o HandleSetPrivacy)
  @@ ("user/block" :> Auth \o Numbered \o HandleBlockContact)
  @@ ("user/unblock" :> Auth \o Numbered \o HandleUnblockContact)
  @@ ("user/blocklist" :> Auth \o HandleGetBlockList)
  @@ ("user/lid" :> Auth \o HandleResolveLid)
  @@ ("user/profilePicture" :> Auth \o HandleSetProfilePicture)
  @@ ("user/profileName" :> Auth \o HandleSetProfileName)
  @@ ("user/profileStatus" :> Auth \o HandleSetProfileStatus)

\* /message
MessageRoutes ==
     ("message/react" :> Auth \o Jid \o HandleReact)
  @@ ("message/presence" :> Auth \o Numbered \o HandleChatPresence)
  @@ ("message/subscribe" :> Auth \o Numbered \o HandleSubscribePresence)
  @@ ("message/markread" :> Auth \o Numbered \o HandleMarkRead)
  @@ ("message/markplayed" :> Auth \o Numbered \o HandleMarkPlayed)
  @@ ("message/downloadmedia" :> Auth \o HandleDownloadMedia)
  @@ ("message/status" :> Auth \o HandleGetMessageStatus)
  @@ ("message/receipts" :> Auth \o HandleGetReceipts)
  @@ ("message/delete" :> Auth \o Numbered \o HandleDeleteMessageEveryone)
  @@ ("message/edit" :> Auth \o Numbered \o HandleEditMessage)

\* /chat
ChatRoutes ==
     ("chat/pin" :> Auth \o Numbered \o HandleChatPin)
  @@ ("chat/unpin" :> Auth \o Numbered \o HandleChatUnpin)
  @@ ("chat/archive" :> Auth \o Numbered \o HandleChatArchive)
  @@ ("chat/unarchive" :> Auth \o Numbered \o HandleChatUnarchive)
  @@ ("chat/mute" :> Auth \o Numbered \o HandleChatMute)
  @@ ("chat/unmute" :> Auth \o Numbered \o HandleChatUnmute)
  @@ ("chat/history-sync" :> Auth \o HandleHistorySyncRequest)

\* /group
GroupRoutes ==
     ("group/list" :> Auth \o HandleListGroups)
  @@ ("group/info" :> Auth \o Numbered \o HandleGetGroupInfo)
  @@ ("group/invitelink" :> Auth \o Numbered \o HandleGetGroupInviteLink)
  @@ ("group/photo" :> Auth \o Numbered \o HandleSetGroupPhoto)
  @@ ("group/name" :> Auth \o Numbered \o HandleSetGroupName)
  @@ ("group/description" :> Auth \o Numbered \o HandleSetGroupDescription)
  @@ ("group/create" :> Auth \o Several \o HandleCreateGroup)
  @@ ("group/participant" :> Auth \o Several \o HandleUpdateParticipant)
  @@ ("group/myall" :> Auth \o HandleGetMyGroups)
  @@ ("group/join" :> Auth \o HandleJoinGroupLink)
  @@ ("group/leave" :> Auth \o Numbered \o HandleLeaveGroup)
  @@ ("group/settings" :> Auth \o Numbered \o HandleUpdateGroupSettings)

\* /call, /community
CommunityRoutes ==
     ("call/reject" :> Auth \o Numbered \o HandleRejectCall)
  @@ ("community/create" :> Auth \o HandleCreateCommunity)
  @@ ("community/add" :> Auth \o Jid \o HandleCommunityAdd)
  @@ ("community/remove" :> Auth \o Jid \o HandleCommunityRemove)

\* /label, /unlabel
LabelRoutes ==
     ("label/chat" :> Auth \o Numbered \o HandleChatLabel)
  @@ ("label/message" :> Auth \o HandleMessageLabel)
  @@ ("label/edit" :> Auth \o HandleEditLabel)
  @@ ("label/list" :> Auth \o HandleGetLabels)
  @@ ("unlabel/chat" :> Auth \o Numbered \o HandleChatUnlabel)
  @@ ("unlabel/message" :> Auth \o HandleMessageUnlabel)

\* /newsletter, /polls
NewsletterRoutes ==
     ("newsletter/create" :> Auth \o HandleCreateNewsletter)
  @@ ("newsletter/list" :> Auth \o HandleListNewsletter)
  @@ ("newsletter/info" :> Auth \o Jid \o HandleGetNewsletter)
  @@ ("newsletter/link" :> Auth \o Jid \o HandleGetNewsletterInvite)
  @@ ("newsletter/subscribe" :> Auth \o Jid \o HandleSubscribeNewsletter)
  @@ ("newsletter/messages" :> Auth \o Jid \o HandleGetNewsletterMessages)
  @@ ("polls/results" :> Auth \o HandleGetPollResults)

\* /typebot
TypebotRoutes ==
     ("typebot" :> Auth \o HandleListBots)
  @@ ("typebot post" :> Auth \o HandleCreateBot)
  @@ ("typebot/sessions" :> Auth \o HandleListSessions)
  @@ ("typebot/changeStatus" :> Auth \o HandleChangeSessionStatus)
  @@ ("typebot/sessions/status" :> Auth \o HandleUpdateSessionStatus)
  @@ ("typebot/sessions delete" :> Auth \o HandleDeleteSession)
  @@ ("typebot put" :> Auth \o HandleUpdateBot)
  @@ ("typebot delete" :> Auth \o HandleDeleteBot)

AssignRoutes ==
  ServerRoutes @@ AdminRoutes @@ InstanceRoutes @@ SettingsRoutes @@ SendRoutes @@ UserRoutes
    @@ MessageRoutes @@ ChatRoutes @@ GroupRoutes @@ CommunityRoutes @@ LabelRoutes
    @@ NewsletterRoutes @@ TypebotRoutes
=============================================================================
