--------------------------- MODULE InstanceRecipes ---------------------------
(***************************************************************************)
(* The instance service: one definition per function of the code.  What    *)
(* its calls do to the registry, to the supervisor and to the window of    *)
(* the QR code is in the modules of those; here is the order of the steps, *)
(* and what each failure leaves behind.                                    *)
(***************************************************************************)
EXTENDS RequestSteps

\* the proxy is encoded, the name must be free
Create == Once(<<Opt(Invalid), Invalid, Save>>)

(***************************************************************************)
(* Connect saves the settings it was given.  Without a runtime it starts   *)
(* one, once the stored proxy can be read; a paired one whose socket is    *)
(* down is started again.  Neither is waited for.                          *)
(***************************************************************************)
ApplyConnectSettings == <<Opt(Save), Ignore(Local)>>
Connect == Once(ApplyConnectSettings \o <<Opt(Invalid), Opt(Ignore(Start))>>)

Reconnect == Once(<<Client, Start>>)

\* the row first, then the runtime; an instance that is not logged in is left alone
Disconnect == Once(<<Client>>) \o May(1, <<Save, Stop>>)

(***************************************************************************)
(* Logged in: WhatsApp, the row, the runtime.  Only connected: the runtime.*)
(* Otherwise an error.  The handler answers each error 400.                *)
(***************************************************************************)
Logout == Once(<<Refuse(Client)>>) \o May(1, <<Refuse(Act), Refuse(Save)>>) \o Once(<<Refuse(Stop)>>)

Status == Once(<<Ignore(Local)>>)

(***************************************************************************)
(* GetQr: an instance that is logged in has no code.  A runtime that is    *)
(* stale is stopped, and one is started when there is none; then the row   *)
(* is read, and read again until a code that has not expired is in it.     *)
(***************************************************************************)
PollFreshQR == <<Refuse(Local)>>
GetQr ==
  Once(<<Refuse(Invalid)>>) \o May(1, <<Refuse(Stop)>>) \o May(1, <<Refuse(Start), Refuse(Invalid)>>)
    \o Once(<<Refuse(Local)>> \o PollFreshQR)

\* PairPhone asks WhatsApp for the code the phone has to show
Pair == Once(<<Opt(Start), Invalid, Start>>)

GetAll == Once(<<Local>>)
Info   == Once(<<Local>>)
\* the runtime follows when it can
Rename == Once(<<Local, Invalid, Save, Ignore(Local)>>)

\* a failed logout or stop does not keep the row
Delete == Once(<<Local, Reread, Opt(Ignore(Act)), Ignore(Stop), Save>>)

\* the runtime starts again with the proxy when it can
SetProxy           == <<Local, Invalid, Save, Ignore(Start)>>
SetProxyFromStruct == Once(SetProxy)
RemoveProxy        == Once(<<Local, Save, Ignore(Start)>>)

\* the jid of the row is set to the device's before the start
ForceReconnect == Once(<<Invalid, Save, Start>>)

GetLogs == Once(<<Invalid, Local>>)
GetAdvancedSettings    == Once(<<Local>>)
UpdateAdvancedSettings == Once(<<Save, Ignore(Local)>>)
=============================================================================
