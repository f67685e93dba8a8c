----------------------------- MODULE MCTransfer -----------------------------
\* One FTP and one SFTP request to the same two local files.
EXTENDS Transfer
=============================================================================
