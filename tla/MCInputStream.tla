--------------------------- MODULE MCInputStream ---------------------------
EXTENDS InputStream
=============================================================================
