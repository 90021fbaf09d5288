----------------------------- MODULE MCRequests -----------------------------
EXTENDS Requests, Routes

MCRecipe == AssignRoutes

\* What the operations leave behind that can fail after they changed something
\* besides the runtime.
Named ==
  [ o \in { "send/event", "instance/connect", "instance/disconnect", "instance/logout",
           "instance/qr", "instance/pair", "instance/delete", "instance/forcereconnect",
           "group/create", "user/savecontact", "user/privacy post" } |->
    CASE o = "send/event" -> {"send", "save", "emit"} \* the text is out, the event fails
      [] o = "instance/connect" -> {"save"}          \* the stored proxy cannot be read
      [] o = "instance/disconnect" -> {"client", "save"} \* the row says stopped, the runtime stays
      [] o = "instance/logout" -> {"client", "act", "save"} \* the device is forgotten, not the rest
      [] o = "instance/qr" -> {"start"}              \* stopped or started, and no code came
      [] o = "instance/pair" -> {"start"}            \* started, and no code came
      [] o = "instance/delete" -> {"act", "start"}   \* the runtime is gone, the row stays
      [] o = "instance/forcereconnect" -> {"save"}   \* the jid is set, the start fails
      [] o = "group/create" -> {"client", "act"}     \* the members are not read back
      [] OTHER -> {"client", "act"} ]  \* the phone was asked; some of the seven are set

\* Every other leaves at most the runtime it started to have a client.
MCLeaves ==
  [o \in DOMAIN MCRecipe |->
     IF o \in DOMAIN Named THEN Named[o]
     ELSE IF ChecksFirst(MCRecipe[o], {}) THEN {} ELSE {"client"}]

\* The table is the one the handlers give: none may leave less.
ASSUME LeavesAreExact ==
  \A o \in DOMAIN MCRecipe : \A kind \in MCLeaves[o] :
    ~ChecksFirst(MCRecipe[o], MCLeaves[o] \ {kind})
=============================================================================
