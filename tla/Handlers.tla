------------------------------ MODULE Handlers ------------------------------
(***************************************************************************)
(* The handlers of the API: what each reads and requires of the request    *)
(* before it calls its service, with 400 for what is missing.  A handler   *)
(* of two ways to send is two operations.                                  *)
(***************************************************************************)
EXTENDS AccountRecipes, SendRecipes, InstanceRecipes

TakesBody    == Once(<<Body>>)
Takes        == Once(<<Body, Required>>)
\* the number, as one text or several, and what else the operation needs
TakesNumber  == Once(<<Read("text"), HasNumber, Required>>)
TakesNumbers == Once(<<Read("texts"), HasNumber, Required>>)
TakesPath    == Once(<<Required>>)

-----------------------------------------------------------------------------
\* send_handler, send_event_handler, send_product_handler
HandleSendText == TakesNumber \o SendText
HandleSendLink == TakesNumber \o SendLink
HandleSendPoll == TakesNumber \o SendPoll
HandleSendSticker == TakesNumber \o SendSticker
HandleSendLocation == TakesNumber \o SendLocation
HandleSendContact == TakesNumber \o SendContact
HandleSendButton == TakesNumber \o SendButton
HandleSendList == TakesNumber \o SendList
HandleSendCarousel == TakesNumber \o SendCarousel
HandleSendEvent == TakesNumber \o SendEvent
HandleSendProduct == TakesNumber \o SendProduct

\* a form with the file
HandleSendMedia == Once(<<Read("form"), HasNumber, Required, Reads>>) \o SendMediaFile
\* JSON with the file in base64, or with its address
HandleSendMediaBase64 ==
  Once(<<Read("text"), HasNumber, Required, Refuse(Invalid)>>) \o SendMediaFile
HandleSendMediaUrl    == TakesNumber \o SendMediaUrl

HandleSendStatusText     == Takes \o SendStatusText
HandleSendStatusMedia    == Once(<<Body, Required, Reads>>) \o SendStatusMediaFile
HandleSendStatusMediaUrl == Takes \o SendStatusMediaUrl

-----------------------------------------------------------------------------
\* instance_handler
HandleCreate         == Takes \o Create
HandleConnect        == TakesBody \o Connect
HandleReconnect      == Reconnect
HandleDisconnect     == Disconnect
HandleLogout         == Logout
HandleStatus         == Status
HandleQr             == GetQr
HandlePair           == Takes \o Pair
HandleAll            == GetAll
HandleInfo           == TakesPath \o Info
HandleRename         == TakesPath \o Takes \o Rename
HandleDelete         == TakesPath \o Delete
HandleSetProxy       == TakesPath \o Takes \o SetProxyFromStruct
HandleDeleteProxy    == TakesPath \o RemoveProxy
HandleForceReconnect == TakesPath \o Takes \o ForceReconnect
HandleGetLogs        == TakesBody \o GetLogs
\* authorizeInstanceScope: the key is the global one or this instance's
InstanceScope        == Once(<<Allow("scope")>>)
HandleGetAdvancedSettings == TakesPath \o InstanceScope \o GetAdvancedSettings
\* what was saved is read back for the answer, when it can be
HandleUpdateAdvancedSettings ==
  TakesPath \o InstanceScope \o TakesBody \o UpdateAdvancedSettings \o Once(<<Ignore(Reads)>>)

-----------------------------------------------------------------------------
\* chat_handler, call_handler, community_handler
HandleChatPin == Takes \o ChatPin
HandleChatUnpin == Takes \o ChatUnpin
HandleChatArchive == Takes \o ChatArchive
HandleChatUnarchive == Takes \o ChatUnarchive
HandleChatMute == Takes \o ChatMute
HandleChatUnmute == Takes \o ChatUnmute
HandleHistorySyncRequest == TakesBody \o HistorySyncRequest
HandleRejectCall == TakesBody \o RejectCall
HandleCreateCommunity == Takes \o CreateCommunity
HandleCommunityAdd == Takes \o CommunityAdd
HandleCommunityRemove == Takes \o CommunityRemove

\* newsletter_handler
HandleCreateNewsletter == Takes \o CreateNewsletter
HandleListNewsletter == ListNewsletter
HandleGetNewsletter == Takes \o GetNewsletter
HandleGetNewsletterInvite == Takes \o GetNewsletterInvite
HandleSubscribeNewsletter == Takes \o SubscribeNewsletter
HandleGetNewsletterMessages == Takes \o GetNewsletterMessages

\* label_handler
HandleChatLabel == Takes \o ChatLabel
HandleMessageLabel == Takes \o MessageLabel
HandleEditLabel == Takes \o EditLabel
HandleChatUnlabel == Takes \o ChatUnlabel
HandleMessageUnlabel == Takes \o MessageUnlabel
HandleGetLabels == GetLabels

-----------------------------------------------------------------------------
\* message_handler
HandleReact == TakesNumber \o React
HandleChatPresence == TakesNumber \o ChatPresence
HandleMarkRead == TakesNumber \o MarkRead
HandleMarkPlayed == TakesNumber \o MarkPlayed
HandleSubscribePresence == TakesNumber \o SubscribePresence
HandleDownloadMedia == TakesBody \o DownloadMedia
HandleGetMessageStatus == Takes \o GetMessageStatus
HandleDeleteMessageEveryone == Takes \o DeleteMessageEveryone
HandleEditMessage == Takes \o EditMessage

\* receipt_handler, poll_handler, server_handler
HandleGetReceipts    == Takes \o Find
HandleGetPollResults == TakesPath \o GetPollResults \o Once(<<Refuse(Invalid)>>)
HandleServerOk       == Once(<<Ignore(Reads)>>)
HandleStats          == GetStats

-----------------------------------------------------------------------------
\* group_handler
HandleListGroups == ListGroups
HandleGetGroupInfo == Takes \o GetGroupInfo
HandleGetGroupInviteLink == Takes \o GetGroupInviteLink
HandleSetGroupPhoto == Takes \o SetGroupPhoto
HandleSetGroupName == Takes \o SetGroupName
HandleSetGroupDescription == Takes \o SetGroupDescription
HandleCreateGroup == TakesNumbers \o CreateGroup
HandleUpdateParticipant == TakesNumbers \o UpdateParticipant
HandleGetMyGroups == GetMyGroups
HandleJoinGroupLink == Takes \o JoinGroupLink
HandleLeaveGroup == Takes \o LeaveGroup
HandleUpdateGroupSettings == Takes \o UpdateGroupSettings

\* user_handler, resolve_lid; some errors are answered 429 or 504 instead of 500
HandleGetUser == TakesNumbers \o GetUser
HandleCheckUser == TakesNumbers \o CheckUser
HandleGetAvatar == TakesNumber \o GetAvatar
HandleGetContacts == GetContacts
HandleSaveContact == TakesNumber \o SaveContact
HandleGetPrivacy == GetPrivacy
HandleSetPrivacy == Takes \o SetPrivacy
HandleBlockContact == TakesNumber \o BlockContact
HandleUnblockContact == TakesNumber \o UnlockContact
HandleGetBlockList == GetBlockList
HandleSetProfilePicture == Takes \o SetProfilePicture
HandleSetProfileName == Takes \o SetProfileName
HandleSetProfileStatus == Takes \o SetProfileStatus
HandleResolveLid == Takes \o ResolveLid

-----------------------------------------------------------------------------
(***************************************************************************)
(* typebot_handler works on the repository itself (the flow of a message   *)
(* is in Typebot).                                                         *)
(***************************************************************************)
HandleCreateBot == Once(<<Body, Required, Save>>)
HandleListBots  == Once(<<Reads>>)
\* read, changed and saved whole
HandleUpdateBot == Once(<<Reads, Refuse(Invalid), Body, Save>>)
HandleDeleteBot == Once(<<Refuse(Local), Save>>)
HandleListSessions        == Once(<<Reads>>)
HandleUpdateSessionStatus == Once(<<Body, Required, Refuse(Local), Save>>)
HandleChangeSessionStatus == Once(<<Body, Required, Refuse(Local), Save>>)
HandleDeleteSession       == Once(<<Refuse(Local), Save>>)
=============================================================================
