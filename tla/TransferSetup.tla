--------------------------- MODULE TransferSetup ----------------------------
(***************************************************************************)
(* What an FTP or SFTP client makes of its options before it connects      *)
(* (logic/ftp_client.py, logic/sftp_client.py, helpers/internal/base.py,   *)
(* filters_helper.py): which ones it refuses, and how the peer of the      *)
(* session it opens is authenticated.                                      *)
(***************************************************************************)

\* protocol_info and auth of an FTP call, as far as they are looked at.  A
\* verify_ssl that is neither True nor False counts by its truth.
FtpOptions == [login: BOOLEAN,
               verify: {"True", "truthy", "falsy"},
               tls: {"unset", "implicit", "explicit", "unknown"},
               certificate: {"none", "usable", "unusable"},
               server: BOOLEAN,                      \* a path on the server
               client: {"absent", "given", "bad"},   \* client_path
               overwrite: BOOLEAN,
               command: {"download", "upload", "remove", "unknown"}]

\* FTPRequest.__init__ with credentials_of: an encrypted mode is either fully
\* verified or refused.
FtpConstructed(o) ==
    /\ o.login
    /\ o.tls # "unknown"
    /\ o.tls # "unset" => o.verify = "True"
    /\ o.tls = "explicit" => o.certificate = "none"

\* _validate_request: a server path, an allowed command, and a client_path that
\* is absent or a non-empty string.
FtpValid(o) == o.server /\ o.client # "bad" /\ o.command # "unknown"

\* _tls_value and get_ssl_config: a certificate is only loaded for TLS.
FtpTlsValue(o) ==
    IF o.verify = "falsy" THEN "plaintext"
    ELSE IF o.certificate = "unusable" THEN "refused" ELSE "context"

\* Mutant: without a client certificate TLS is set up without verification.
TlsContextUnverified(o) ==
    IF o.certificate = "none" THEN "nobody" ELSE "verified"

\* tls_context_for and build_client_ssl_context: the default context, or one
\* with the client certificate that is checked to verify the server.
TlsContextFor(o) == "verified"

\* How the server of the FTP session is authenticated.
FtpPeer(o) ==
    IF FtpTlsValue(o) = "plaintext" THEN "nobody" ELSE TlsContextFor(o)

\* The caller asked by name for a session nobody is authenticated in.
FtpWaived(o) == o.verify = "falsy"

-----------------------------------------------------------------------------
\* `known` is known_hosts: None is different from a missing key.
SftpOptions == [typed: BOOLEAN,         \* an SFTPAuth, not a legacy auth
                user: BOOLEAN, password: BOOLEAN,
                authKeys: BOOLEAN, infoKeys: BOOLEAN, passphrase: BOOLEAN,
                known: {"missing", "None", "given"},
                hostKey: BOOLEAN, skip: BOOLEAN,
                remote: BOOLEAN,                     \* a path on the server
                local: {"absent", "given", "bad"},   \* local_path
                overwrite: BOOLEAN,
                mode: {"get", "put", "remove", "unknown"}]

\* sftp_credentials_of: keys from one place only, and something to log in
\* with; a passphrase belongs to keys.
SftpCredentials(o) ==
    LET keys == o.infoKeys \/ (o.typed /\ o.authKeys)
    IN  /\ o.user
        /\ ~(o.typed /\ o.authKeys /\ o.infoKeys)
        /\ o.typed /\ o.passphrase => keys
        /\ o.password \/ keys

\* The known_hosts that _connect_options passes on: None only for the skip
\* flag, else the pinned key, the caller's file or asyncssh's own default.
SftpPeer(o) == IF o.skip THEN "nobody" ELSE "verified"

\* SFTPRequest.__init__ with _connect_options: at most one host key policy,
\* and never known_hosts=None.
SftpConstructed(o) ==
    /\ SftpCredentials(o)
    /\ o.known # "None"
    /\ ~(o.hostKey /\ o.skip)
    /\ o.known = "given" => ~o.hostKey /\ ~o.skip

\* _validate_mode: as for FTP, an absent local_path is a call of its own.
SftpValid(o) == o.remote /\ o.local # "bad" /\ o.mode # "unknown"

SftpWaived(o) == o.skip

-----------------------------------------------------------------------------
\* The operation that is looked up on the session, by its FTP name.  A local
\* path is an operand too many for a removal.
Operation(command, local) ==
    IF command = "remove" /\ local = "given" THEN "misfit" ELSE command

SftpCommand(mode) == CASE mode = "get" -> "download"
                       [] mode = "put" -> "upload"
                       [] OTHER -> mode

\* What the options come to: a refusal, or an operation, with or without a local
\* path, in a session whose peer is authenticated or, as the caller asked, not.
\* Only the wrappers of a download with a local path read overwrite.
Call(accepted, peer, waived, command, local, overwrite) ==
    IF ~accepted THEN [accepted |-> FALSE]
    ELSE [accepted |-> TRUE, command |-> Operation(command, local),
          plain |-> command = "download" /\ local = "absent",
          overwrite |-> command = "download" /\ local = "given" /\ overwrite,
          asked |-> peer = "verified" \/ waived]

FtpCalls ==
    {Call(/\ FtpConstructed(o) /\ FtpValid(o) /\ FtpTlsValue(o) # "refused",
          FtpPeer(o), FtpWaived(o), o.command, o.client, o.overwrite) :
       o \in FtpOptions}

SftpCalls ==
    {Call(SftpConstructed(o) /\ SftpValid(o), SftpPeer(o), SftpWaived(o),
          SftpCommand(o.mode), o.local, o.overwrite) : o \in SftpOptions}
=============================================================================
