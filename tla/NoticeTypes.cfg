SPECIFICATION NoticeSpec
INVARIANT TypesRegistered
