\* A ClientHello that goes on in a second record.
SPECIFICATION MCSpec
INVARIANT ServerNameExtracted
