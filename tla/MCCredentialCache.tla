------------------------- MODULE MCCredentialCache -------------------------
EXTENDS CredentialCache

\* A wall clock that is right, or far enough off to hide an expiry or to make
\* one up.
MCSkews == {-12, 0, 12}

=============================================================================
